---- MODULE Spec2Model ----
(***************************************************************************)
(* A model of the Starship launch-and-catch simulator.                     *)
(*                                                                         *)
(*   main.js (src/unnamed/part_003)   mission phase machine, commands,     *)
(*                                    updateSimulation                     *)
(*   src/scripts/improved_physics.js  ImprovedPhysicsEngine                *)
(*   src/unnamed/part_002             AerospacePhysicsEngine               *)
(*   src/unnamed/part_001             MechazillaCatchSimulation            *)
(*                                                                         *)
(* The program computes in IEEE doubles; the model computes in integers:   *)
(*   time          ms                                                      *)
(*   position      mm          velocity  mm/s     acceleration  mm/s^2     *)
(*   mass          kg          force     kN                                *)
(*   throttle, PID gains and outputs, density ratio      1/1000            *)
(* Divisions floor (\div), so a negative value never rounds to zero and    *)
(* every sign test of the code reads the sign the code reads.              *)
(*                                                                         *)
(* Only the vertical axis of a vehicle is modelled: position.y,            *)
(* velocity.y, acceleration.y and one component of the angular velocity.   *)
(* Vehicles stay on the x = z = 0 axis with rotation 0 (thrust along +y),  *)
(* so the horizontal distance to the landing target is the constant 120 m. *)
(* What acts on x, z and the rotation only is left out: the attitude and   *)
(* horizontal-position controllers inside updateLandingControl, the grid   *)
(* fins' steering (their deployment and drag are modelled), gimbal, the    *)
(* pitch programme of updateAscent above 500 m and the flip of             *)
(* updateBoosterReturn.  windSpeed stays 0, so there is no wind force.     *)
(*                                                                         *)
(* A vehicle record carries five histories next to the program's fields:  *)
(* clamped (the last step met the ground), dt (the step the last           *)
(* integration used), steps and controls (the integrations and the runs    *)
(* of the landing control since the last call into the engine from         *)
(* outside) and impulses (the separation impulses given to the vehicle).   *)
(* The catch controller reads a booster                                    *)
(* position by its horizontal distance from the tower axis and its height, *)
(* and a booster velocity by its vertical component and its horizontal     *)
(* length;                                                                 *)
(* its trackingError, which no method reads, is left out.                  *)
(***************************************************************************)
EXTENDS Integers, Sequences, FiniteSets, TLC

VARIABLES
    cmd,                  \* the operation performed by the last step (history)
    ticks,                \* number of update steps taken so far (history)
    scenario,             \* what ran since the last accepted command (history)
    currentPhase,         \* main.js currentPhase
    isSimulationRunning,  \* main.js isSimulationRunning
    missionTime,          \* main.js missionTime (ms)
    simulationSpeed,      \* main.js simulationSpeed (1/10)
    starshipAscending,    \* main.js starshipAscending
    scene,                \* model positions of the 3D scene (mm)
    mechazillaCatch,      \* main.js mechazillaCatch controller
    vehicles,             \* ImprovedPhysicsEngine.vehicles
    thrustApplied,        \* thrust force (kN) applied to each vehicle by the last step
    separationTimer,      \* ImprovedPhysicsEngine.separationTimer (ms), Null when unset
    separationCompleted,  \* ImprovedPhysicsEngine.separationCompleted
    landingPhase,         \* ImprovedPhysicsEngine.landingPhase
    landingParams,        \* ImprovedPhysicsEngine.landingParams timers
    landingStartAltitude, \* ImprovedPhysicsEngine.landingStartAltitude, Null when undefined
    returnParams,         \* ImprovedPhysicsEngine.returnParams, Null when undefined
    simulationTime,       \* ImprovedPhysicsEngine.simulationTime (ms)
    pidControllers,       \* ImprovedPhysicsEngine.pidControllers
    pidResult,            \* what the last PID call returned (history)
    returned,             \* the arguments and the result of the last call of a pure method (history)
    aero,                 \* AerospacePhysicsEngine.vehicles
    aeroThrust,           \* thrust force (kN) the Aerospace engine applied in the last step
    aeroMission           \* AerospacePhysicsEngine flightPhase and separationTimer (ms)

vars == <<cmd, ticks, scenario, currentPhase, isSimulationRunning, missionTime,
          simulationSpeed, starshipAscending, scene, mechazillaCatch, vehicles,
          thrustApplied, separationTimer, separationCompleted, landingPhase,
          landingParams, landingStartAltitude, returnParams, simulationTime,
          pidControllers, pidResult, returned, aero, aeroThrust, aeroMission>>

missionVars == <<currentPhase, isSimulationRunning, missionTime, simulationSpeed,
                 starshipAscending, scene, mechazillaCatch>>

engineVars == <<vehicles, thrustApplied, separationTimer, separationCompleted,
                landingPhase, landingParams, landingStartAltitude, returnParams,
                simulationTime>>

aeroVars == <<aero, aeroThrust, aeroMission>>

resultVars == <<pidResult, returned>>

pidVars == <<pidControllers, resultVars>>

\* an optional value: Null when null or undefined, <<x>> when set to x
Null == <<>>

VehicleIds == {"superHeavy", "starship"}

Max(a, b) == IF a >= b THEN a ELSE b

Min(a, b) == IF a <= b THEN a ELSE b

Abs(a) == IF a >= 0 THEN a ELSE -a

Sign(a) == IF a > 0 THEN 1 ELSE IF a < 0 THEN -1 ELSE 0

(***************************************************************************)
(* ImprovedPhysicsEngine: constants of the constructor                     *)
(***************************************************************************)
gravity == 9810

atmosphericDensity == 1225

superHeavyMass == 200000

superHeavyFuel == 3400000

superHeavyMaxThrust == 72000

superHeavyDragCoefficient == 80

superHeavyArea == 10000

starshipMass == 120000

starshipFuel == 1200000

starshipMaxThrust == 7500

starshipDragCoefficient == 82

starshipArea == 6362

mass(id) == IF id = "superHeavy" THEN superHeavyMass ELSE starshipMass

initialFuel(id) == IF id = "superHeavy" THEN superHeavyFuel ELSE starshipFuel

maxThrust(id) == IF id = "superHeavy" THEN superHeavyMaxThrust ELSE starshipMaxThrust

\* gridFins.dragContribution, in 1/100
gridFinDragContribution == 20

\* calculateDrag: the drag coefficient, with the grid fins' share once deployed
dragCoefficient(id, v) ==
    IF id = "superHeavy"
    THEN superHeavyDragCoefficient
         + (IF v.gridFinsDeployed
            THEN (gridFinDragContribution * v.gridFinsEffectiveness) \div 1000 ELSE 0)
    ELSE starshipDragCoefficient

\* 0.5 * atmosphericDensity * dragCoefficient * area, in 1/10 kg/m
dragFactor(id, v) ==
    (atmosphericDensity * dragCoefficient(id, v)
        * (IF id = "superHeavy" THEN superHeavyArea ELSE starshipArea)) \div 2000000

\* Math.exp(-k) in 1/1000 for k = 0..8, the knots of the density factor
ExpKnots == <<1000, 368, 135, 50, 18, 7, 2, 1, 0>>

scaleHeight == 11000

\* Math.exp(-altitude / 11000) in 1/1000, linear between the knots
densityFactor(y) ==
    LET alt == y \div 1000
        k   == alt \div scaleHeight
        r   == alt % scaleHeight
    IN  IF alt <= 0 THEN 1000
        ELSE IF k >= 8 THEN 0
        ELSE ExpKnots[k + 1] - ((ExpKnots[k + 1] - ExpKnots[k + 2]) * r) \div scaleHeight

\* mass + fuel in units of 100 kg (the divisor of every acceleration)
totalMass100(id, v) == (mass(id) + v.fuel) \div 100

(***************************************************************************)
(* calculateForces: the forces on one vehicle, as accelerations            *)
(***************************************************************************)
\* thrust force in kN: applied whenever throttle > 0
thrustForce(id, v) ==
    IF v.throttle > 0 THEN (maxThrust(id) * v.throttle) \div 1000 ELSE 0

\* drag force in N, opposing the velocity
dragForce(id, v) ==
    LET vd  == Abs(v.vy) \div 100
        sea == (dragFactor(id, v) * vd * vd) \div 1000
    IN  IF v.vy = 0 THEN 0
        ELSE -Sign(v.vy) * ((sea * densityFactor(v.y)) \div 1000)

\* forces / (mass + fuel): gravity, thrust and drag
calculateForces(id, v) ==
    -gravity
    + (thrustForce(id, v) * 10000) \div totalMass100(id, v)
    + (dragForce(id, v) * 10) \div totalMass100(id, v)

\* a burn that does not stop at the empty tank
consumeFuelBelowEmpty(id, v, dt) ==
    v.fuel - (thrustForce(id, v) * dt) \div 3000

\* fuel left after burning maxThrust * throttle / 3000 kg/s for dt ms
consumeFuel(id, v, dt) ==
    Max(0, v.fuel - (thrustForce(id, v) * dt) \div 3000)

\* the position a step would reach before ground contact is tested
integrate(v, a, dt) ==
    LET vy1 == v.vy + (a * dt) \div 1000
    IN  [v EXCEPT !.ay = a, !.vy = vy1, !.y = v.y + (vy1 * dt) \div 1000,
                  !.clamped = FALSE, !.dt = dt, !.steps = @ + 1]

\* ground contact: altitude, velocity, acceleration and angular velocity zeroed
groundClamp(v) ==
    IF v.y < 0
    THEN [v EXCEPT !.y = 0, !.vy = 0, !.ay = 0, !.w = 0, !.clamped = TRUE]
    ELSE v

\* updateVehiclePhysics before its ground-contact test
steppedVehicle(id, v, deltaTime, enginesOn) ==
    [integrate(v, calculateForces(id, v), Min(deltaTime, 100)) EXCEPT
        !.fuel = IF enginesOn /\ v.throttle > 0
                 THEN consumeFuel(id, v, Min(deltaTime, 100)) ELSE @]

\* updateVehiclePhysics(vehicle, deltaTime, enginesOn) on one vehicle record
updateVehiclePhysics(id, v, deltaTime, enginesOn) ==
    IF mass(id) + v.fuel <= 0
    THEN v
    ELSE groundClamp(steppedVehicle(id, v, deltaTime, enginesOn))

(***************************************************************************)
(* PID controllers                                                         *)
(***************************************************************************)
Clamp(x, lo, hi) == Max(lo, Min(hi, x))

\* pidControllers.verticalVelocity as the constructor builds it
verticalVelocityController ==
    [kP |-> 200, kI |-> 10, kD |-> 100, setpoint |-> 0, integral |-> 0,
     previousError |-> 0, output |-> 0, maxOutput |-> 300, minOutput |-> -300,
     lastError |-> Null]

\* pidControllers.horizontalPosition as the constructor builds it
horizontalPositionController ==
    [kP |-> 100, kI |-> 5, kD |-> 50, setpoint |-> <<0, 0>>, integral |-> <<0, 0>>,
     previousError |-> <<0, 0>>, output |-> <<0, 0>>, maxOutput |-> 200,
     minOutput |-> -200]

\* updatePID, scalar branch: the controller after one update (output in .output)
updatePIDScalar(c, currentValue, dt) ==
    LET error      == c.setpoint - currentValue
        derivative == ((error - c.previousError) * 1000) \div dt
        integral   == Clamp(c.integral + (error * dt) \div 1000, c.minOutput, c.maxOutput)
        output     == (c.kP * error + c.kI * integral + c.kD * derivative) \div 1000
    IN  [c EXCEPT !.integral = integral,
                  !.output = Clamp(output, c.minOutput, c.maxOutput),
                  !.previousError = error]

\* updatePID has no test of deltaTime and no throw statement: it raises nothing
updatePIDRaises(dt) == FALSE

\* updatePID, scalar branch, deltaTime = 0: the derivative (error - previousError) / 0
\* is NaN when the error repeats and +-Infinity otherwise
updatePIDDerivativeIsNaN(c, currentValue) == c.setpoint - currentValue = c.previousError

\* updatePID, scalar branch, deltaTime = 0: the integral gains error * 0, the
\* output is NaN, or +-Infinity clamped to maxOutput or minOutput (a NaN output
\* is not stored in the record; updatePIDDerivativeIsNaN tells it)
updatePIDZeroStep(c, currentValue) ==
    LET error == c.setpoint - currentValue
    IN  [c EXCEPT !.integral = Clamp(@, c.minOutput, c.maxOutput),
                  !.output = IF error > c.previousError THEN c.maxOutput
                             ELSE IF error < c.previousError THEN c.minOutput
                             ELSE @,
                  !.previousError = error]

RECURSIVE SqrtSearch(_, _, _)
\* the least r in lo..hi with r * r >= n
SqrtSearch(n, lo, hi) ==
    IF lo >= hi THEN lo
    ELSE LET mid == (lo + hi) \div 2
         IN  IF mid * mid >= n THEN SqrtSearch(n, lo, mid) ELSE SqrtSearch(n, mid + 1, hi)

\* Vector2.length(), rounded up
Length(p) == SqrtSearch(p[1] * p[1] + p[2] * p[2], 0, 46340)

\* x * k / n rounded toward zero
Scale(x, k, n) == Sign(x) * ((Abs(x) * k) \div n)

\* v.length() > maxOutput ? v.normalize().multiplyScalar(maxOutput) : v
limitLength(p, maxOutput) ==
    IF p[1] * p[1] + p[2] * p[2] > maxOutput * maxOutput
    THEN <<Scale(p[1], maxOutput, Length(p)), Scale(p[2], maxOutput, Length(p))>>
    ELSE p

\* updatePID, Vector2 branch
updatePIDVector2(c, currentValue, dt) ==
    LET error      == <<c.setpoint[1] - currentValue[1], c.setpoint[2] - currentValue[2]>>
        derivative == <<((error[1] - c.previousError[1]) * 1000) \div dt,
                        ((error[2] - c.previousError[2]) * 1000) \div dt>>
        integral   == limitLength(<<c.integral[1] + (error[1] * dt) \div 1000,
                                    c.integral[2] + (error[2] * dt) \div 1000>>,
                                  c.maxOutput)
        output     == <<(c.kP * error[1] + c.kI * integral[1] + c.kD * derivative[1]) \div 1000,
                        (c.kP * error[2] + c.kI * integral[2] + c.kD * derivative[2]) \div 1000>>
    IN  [c EXCEPT !.integral = integral,
                  !.output = limitLength(output, c.maxOutput),
                  !.previousError = error]

\* pidControl(controller, error, dt): the controller after the call; its return
\* value p + i + d is NaN while controller.lastError is undefined
pidControl(c, error, dt) ==
    [c EXCEPT !.integral = c.integral + (error * dt) \div 1000,
              !.lastError = <<error>>]

\* the value pidControl returns, [nan, value]
pidControlOutput(c, error, dt) ==
    LET integral == c.integral + (error * dt) \div 1000
    IN  IF c.lastError = Null
        THEN [nan |-> TRUE, value |-> 0]
        ELSE [nan |-> FALSE,
              value |-> (c.kP * error + c.kI * integral
                         + c.kD * (((error - c.lastError[1]) * 1000) \div dt)) \div 1000]

(***************************************************************************)
(* ImprovedPhysicsEngine: the engine state as one record, and its methods  *)
(* as functions from the state before a call to the state after it         *)
(***************************************************************************)
engine ==
    [vehicles |-> vehicles, thrust |-> thrustApplied,
     separationTimer |-> separationTimer, separationCompleted |-> separationCompleted,
     landingPhase |-> landingPhase, landingParams |-> landingParams,
     landingStartAltitude |-> landingStartAltitude, returnParams |-> returnParams,
     simulationTime |-> simulationTime, pid |-> pidControllers]

noThrust == [id \in VehicleIds |-> 0]

\* the engine as a call from outside finds it: the histories of the call (the
\* thrust applied, the number of integrations of each vehicle) start afresh
engineAtCall ==
    [engine EXCEPT !.thrust = noThrust,
                   !.vehicles = [id \in VehicleIds |-> [vehicles[id] EXCEPT !.steps = 0, !.controls = 0]]]

hoverAltitude == 50000

touchdownSpeed == 2000

\* updateVehiclePhysics, its ground-contact test: s is the vehicle stepped, and
\* landingPhase 'final' becomes 'touchdown' when the booster meets the ground
groundContact(e, id, s) ==
    [e EXCEPT !.vehicles[id] = groundClamp(s),
              !.thrust[id] = thrustForce(id, e.vehicles[id]),
              !.landingPhase = IF s.y < 0 /\ id = "superHeavy" /\ @ = "final"
                               THEN "touchdown" ELSE @]

\* updateVehiclePhysics as a method of the engine
physicsStep(e, id, deltaTime, enginesOn) ==
    IF mass(id) + e.vehicles[id].fuel <= 0
    THEN e
    ELSE groundContact(e, id, steppedVehicle(id, e.vehicles[id], deltaTime, enginesOn))

\* updateVehiclePhysics(vehicle, deltaTime, vehicle.throttle > 0)
stepWithThrottle(e, id, deltaTime) ==
    physicsStep(e, id, deltaTime, e.vehicles[id].throttle > 0)

\* updateLandingControl: approach becomes final below half the start altitude
landingControlPhase(e) ==
    IF e.landingPhase = "approach" /\ e.landingStartAltitude # Null
       /\ e.vehicles["superHeavy"].y < e.landingStartAltitude[1] \div 2
    THEN "final" ELSE e.landingPhase

\* updateLandingControl: the descent rate asked for at altitude y
targetAltitudeRate(lp, y) ==
    IF lp = "approach" THEN Max(-50000, -(y \div 20))
    ELSE IF y - hoverAltitude > 0 THEN -Min(20000, (y - hoverAltitude) \div 2)
    ELSE -touchdownSpeed

\* updateLandingControl: the throttle set from the controller c after its update
landingThrottle(e, lp, c) ==
    [e EXCEPT !.landingPhase = lp,
              !.pid.verticalVelocity = c,
              !.vehicles["superHeavy"].throttle = Max(100, Min(1000, 500 + c.output)),
              !.vehicles["superHeavy"].controls = @ + 1]

\* updateLandingControl(vehicle, dt) for the booster, landing phases approach and
\* final (any other phase leaves targetAltitudeRate undefined; no caller does so)
updateLandingControl(e, dt) ==
    IF landingControlPhase(e) \notin {"approach", "final"}
    THEN e
    ELSE landingThrottle(e, landingControlPhase(e),
             updatePIDScalar(e.pid.verticalVelocity,
                 targetAltitudeRate(landingControlPhase(e), e.vehicles["superHeavy"].y)
                     - e.vehicles["superHeavy"].vy,
                 dt))

\* update(deltaTime), the loop body after the forces: v is the vehicle integrated
settleOne(e, id, thrust, v) ==
    [e EXCEPT !.vehicles[id] = groundClamp(v),
              !.thrust[id] = thrust,
              !.landingPhase = IF v.y < 0 /\ @ = "final" THEN "touchdown" ELSE @]

\* update(deltaTime), the loop body after updateLandingControl: a and thrust are
\* the acceleration and the thrust computed before it
integrateOne(e, id, dt, a, thrust) ==
    settleOne(e, id, thrust,
        [integrate(e.vehicles[id], a, dt) EXCEPT
            !.fuel = IF e.vehicles[id].throttle > 0
                     THEN consumeFuel(id, e.vehicles[id], dt) ELSE @])

\* one iteration of the loop of update(deltaTime): one active vehicle
updateOne(e, id, dt) ==
    IF ~e.vehicles[id].active
    THEN e
    ELSE integrateOne(IF e.landingPhase # "none" /\ id = "superHeavy"
                      THEN updateLandingControl(e, dt) ELSE e,
                      id, dt, calculateForces(id, e.vehicles[id]),
                      thrustForce(id, e.vehicles[id]))

\* update(deltaTime): every active vehicle, in the order of this.vehicles
update(e, deltaTime) ==
    updateOne(updateOne(e, "starship", Min(deltaTime, 100)), "superHeavy", Min(deltaTime, 100))

\* updateLaunch(deltaTime)
updateLaunch(e, deltaTime) ==
    update([e EXCEPT !.vehicles["superHeavy"].active = TRUE,
                     !.vehicles["superHeavy"].throttle = 1000], deltaTime)

\* updateAscent(deltaTime)
updateAscent(e, deltaTime) ==
    update([e EXCEPT !.vehicles["superHeavy"].throttle = 900], deltaTime)

\* a separation that lasts 5.0 s
separationDurationLong == 3000 + 2000

\* this.separationTimer = 3.0
separationDuration == 3000

\* initializeBoosterReturn()
initializeBoosterReturn(e) ==
    [e EXCEPT !.landingPhase = "return",
              !.returnParams = <<[startTime |-> e.simulationTime, phase |-> "coast"]>>]

\* the impulses given in every call while the timer runs
beginSeparationAgain(e) ==
    [e EXCEPT !.vehicles["starship"].y = e.vehicles["superHeavy"].y + 60000,
              !.vehicles["starship"].vy = e.vehicles["superHeavy"].vy + 3000,
              !.vehicles["starship"].throttle = 900,
              !.vehicles["starship"].impulses = @ + 1,
              !.vehicles["superHeavy"].vy = @ - 2000,
              !.vehicles["superHeavy"].throttle = 0,
              !.vehicles["superHeavy"].impulses = @ + 1,
              !.separationTimer = IF e.separationTimer = Null \/ e.separationTimer = <<0>>
                                  THEN <<separationDuration>> ELSE @]

\* updateStageSeparation, its first call (!this.separationTimer: the timer is
\* null or 0): the stack is split and the impulses given
beginSeparation(e) ==
    IF e.separationTimer = Null \/ e.separationTimer = <<0>>
    THEN [e EXCEPT !.vehicles["starship"].y = e.vehicles["superHeavy"].y + 60000,
                   !.vehicles["starship"].vy = e.vehicles["superHeavy"].vy + 3000,
                   !.vehicles["starship"].throttle = 900,
                   !.vehicles["starship"].impulses = @ + 1,
                   !.vehicles["superHeavy"].vy = @ - 2000,
                   !.vehicles["superHeavy"].throttle = 0,
                   !.vehicles["superHeavy"].impulses = @ + 1,
                   !.separationTimer = <<separationDuration>>]
    ELSE e

\* updateStageSeparation: this.separationTimer -= deltaTime
separationCountdown(e, deltaTime) ==
    [e EXCEPT !.separationTimer = <<@[1] - deltaTime>>]

\* updateStageSeparation: the separation forces while the timer runs
separationForces(e) ==
    IF e.separationTimer[1] > 0
    THEN [e EXCEPT !.vehicles["superHeavy"].ay = @ - (500 * e.separationTimer[1]) \div 3000,
                   !.vehicles["starship"].ay = @ + (800 * e.separationTimer[1]) \div 3000]
    ELSE e

\* updateStageSeparation: the set-up of the phases after the separation
completeSeparation(e) ==
    IF e.separationTimer[1] <= 0 /\ ~e.separationCompleted
    THEN initializeBoosterReturn(
             [e EXCEPT !.separationCompleted = TRUE,
                       !.vehicles["starship"].throttle = 1000,
                       !.vehicles["starship"].active = TRUE,
                       !.vehicles["superHeavy"].throttle = 0,
                       !.vehicles["superHeavy"].active = TRUE])
    ELSE e

\* updateStageSeparation(deltaTime); separationComplete is separationTimer <= 0 after it
updateStageSeparation(e, deltaTime) ==
    completeSeparation(separationForces(
        stepWithThrottle(
            stepWithThrottle(separationCountdown(beginSeparation(e), deltaTime),
                             "superHeavy", deltaTime),
            "starship", deltaTime)))

coastDurationShort == 10000 - 5000

coastDuration == 10000

turnDuration == 5000

burnDuration == 15000

\* updateBoosterReturn, the switch on returnParams.phase
returnGuidance(e, deltaTime) ==
    LET rp          == e.returnParams
        timeInPhase == e.simulationTime - rp[1].startTime
        next(durationOver, phase) ==
            IF durationOver
            THEN <<[startTime |-> e.simulationTime, phase |-> phase]>>
            ELSE rp
    IN  CASE rp = Null -> e
          [] rp # Null /\ rp[1].phase = "coast" ->
                [e EXCEPT !.vehicles["superHeavy"].throttle = 0,
                          !.returnParams = next(timeInPhase >= coastDuration, "flip")]
          [] rp # Null /\ rp[1].phase = "flip" ->
                [e EXCEPT !.vehicles["superHeavy"].throttle = 200,
                          !.returnParams = next(timeInPhase >= turnDuration, "burn")]
          [] rp # Null /\ rp[1].phase = "burn" ->
                [e EXCEPT !.vehicles["superHeavy"].throttle = 600,
                          !.returnParams = next(timeInPhase >= burnDuration, "approach"),
                          !.landingPhase = IF timeInPhase >= burnDuration
                                           THEN "approach" ELSE @]
          [] rp # Null /\ rp[1].phase = "approach" ->
                updateLandingControl(
                    [e EXCEPT !.landingPhase = IF @ = "none" THEN "approach" ELSE @],
                    deltaTime)

\* updateBoosterReturn: the landing control run after the physics
returnControl(e, deltaTime) ==
    IF e.landingPhase \notin {"none", "touchdown"}
       /\ (e.returnParams = Null \/ e.returnParams[1].phase = "approach")
    THEN updateLandingControl(e, deltaTime)
    ELSE e

\* updateBoosterReturn(deltaTime)
updateBoosterReturn(e, deltaTime) ==
    returnControl(
        stepWithThrottle(returnGuidance([e EXCEPT !.simulationTime = @ + deltaTime], deltaTime),
                         "superHeavy", deltaTime),
        deltaTime)

orbitAltitude == 200000000

\* updateStarshipAscent(deltaTime); orbitReached is position.y > 200000 after it
updateStarshipAscent(e, deltaTime) ==
    physicsStep([e EXCEPT !.vehicles["starship"].throttle = 1000], "starship",
                deltaTime, TRUE)

boostbackAltitude == 65000000

entryAltitude == 40000000

descentAltitude == 20000000

landingAltitude == 3000000

boostbackBurnDuration == 20000

entryBurnDuration == 15000

boostbackThrottle == 600

entryThrottle == 400

landingBaseThrottle == 300

entrySpeed == -50000

\* transitions on the altitude thresholds alone
landingTransitionAltitudeOnly(lp, altitude, currentPhaseTime) ==
    CASE lp = "coast" /\ altitude <= boostbackAltitude -> "boostback"
      [] lp = "boostback" /\ altitude <= entryAltitude -> "entry"
      [] lp = "entry" /\ altitude <= descentAltitude -> "descent"
      [] lp = "descent" /\ altitude <= landingAltitude -> "landing"
      [] lp = "landing" /\ altitude <= 0 -> "touchdown"
      [] OTHER -> lp

\* updateBoosterLanding: the landing phase after the altitude and time transitions
landingTransition(lp, altitude, currentPhaseTime) ==
    CASE lp = "coast" /\ altitude <= boostbackAltitude -> "boostback"
      [] lp = "boostback" /\ (currentPhaseTime >= boostbackBurnDuration
                               \/ altitude <= entryAltitude) -> "entry"
      [] lp = "entry" /\ (currentPhaseTime >= entryBurnDuration
                           \/ altitude <= descentAltitude) -> "descent"
      [] lp = "descent" /\ altitude <= landingAltitude -> "landing"
      [] lp = "landing" /\ altitude <= 0 -> "touchdown"
      [] OTHER -> lp

\* Math.sqrt(2 * 0.5 * gravity * altitude) in mm/s
brakingSpeed(altitude) ==
    IF altitude <= 0 THEN 0
    ELSE IF altitude <= 200000 THEN SqrtSearch(gravity * altitude, 0, 46340)
    ELSE 100 * SqrtSearch((981 * (altitude \div 100)) \div 10, 0, 46340)

\* updateBoosterLanding: the base throttle of a landing phase
baseThrottle(lp, currentPhaseTime) ==
    CASE lp = "boostback" -> boostbackThrottle
      [] lp = "entry" -> entryThrottle
      [] lp = "landing" -> landingBaseThrottle
      [] lp = "touchdown" ->
            IF currentPhaseTime > 3000 THEN 0
            ELSE (200 * Max(0, 1000 - currentPhaseTime \div 2)) \div 1000
      [] OTHER -> 0

\* updateBoosterLanding: the clock advanced, the landing phase initialised and
\* the time in the phase measured
landingClock(e, dt) ==
    [e EXCEPT !.simulationTime = @ + dt,
              !.landingPhase = IF @ = "none" THEN "descent" ELSE @,
              !.landingParams =
                  IF e.landingPhase = "none"
                  THEN [phaseStartTime |-> e.simulationTime + dt, currentPhaseTime |-> 0]
                  ELSE [@ EXCEPT !.currentPhaseTime =
                                      e.simulationTime + dt - e.landingParams.phaseStartTime]]

\* updateBoosterLanding: the transitions between the landing phases
landingPhaseStep(e) ==
    [e EXCEPT !.landingPhase = landingTransition(@, e.vehicles["superHeavy"].y,
                                                 e.landingParams.currentPhaseTime),
              !.landingParams.phaseStartTime =
                  IF landingTransition(e.landingPhase, e.vehicles["superHeavy"].y,
                                       e.landingParams.currentPhaseTime) # e.landingPhase
                  THEN e.simulationTime ELSE @]

\* updateBoosterLanding: the vertical velocity setpoint of the phase
landingSetpoint(e) ==
    [e EXCEPT !.pid.verticalVelocity.setpoint =
        CASE e.landingPhase = "entry" -> entrySpeed
          [] e.landingPhase = "landing" ->
                Min(-touchdownSpeed, -brakingSpeed(e.vehicles["superHeavy"].y))
          [] OTHER -> @]

\* a throttle set to baseThrottle + verticalControl with no clamp
burnThrottleUnclamped(e, c) ==
    [e EXCEPT !.pid.verticalVelocity = c,
              !.vehicles["superHeavy"].throttle =
                  baseThrottle(e.landingPhase, e.landingParams.currentPhaseTime) + c.output]

\* updateBoosterLanding: booster.throttle = baseThrottle + verticalControl, clamped
burnThrottle(e, c) ==
    [e EXCEPT !.pid.verticalVelocity = c,
              !.vehicles["superHeavy"].throttle =
                  Min(1000, Max(0, baseThrottle(e.landingPhase, e.landingParams.currentPhaseTime)
                                   + c.output))]

\* updateBoosterLanding: the throttle of the phase
landingBurn(e, dt) ==
    IF e.landingPhase \in {"landing", "touchdown"}
    THEN burnThrottle(e, updatePIDScalar(e.pid.verticalVelocity,
                                         e.vehicles["superHeavy"].vy, dt))
    ELSE [e EXCEPT !.vehicles["superHeavy"].throttle =
              Min(1000, Max(0, baseThrottle(e.landingPhase, e.landingParams.currentPhaseTime)))]

\* landingParams.gridFinDeployAltitude, mm
gridFinDeployAltitude == 60000000

\* landingParams.gridFinStowAltitude, mm
gridFinStowAltitude == 1000000

\* gridFins.deploymentRate, in 1/1000 per second
gridFinDeploymentRate == 200

\* updateBoosterLanding: the grid fins deploy inside the altitude window until
\* they are deployed, and stow outside it while they are deployed
gridFinStep(e, deltaTime) ==
    LET v        == e.vehicles["superHeavy"]
        inWindow == v.y <= gridFinDeployAltitude /\ v.y >= gridFinStowAltitude
        more     == v.gridFinsEffectiveness + (gridFinDeploymentRate * deltaTime) \div 1000
        less     == v.gridFinsEffectiveness - (gridFinDeploymentRate * deltaTime) \div 1000
    IN  IF inWindow /\ ~v.gridFinsDeployed
        THEN [e EXCEPT !.vehicles["superHeavy"].gridFinsEffectiveness =
                           IF more >= 1000 THEN 1000 ELSE more,
                       !.vehicles["superHeavy"].gridFinsDeployed = (more >= 1000)]
        ELSE IF ~inWindow /\ v.gridFinsDeployed
        THEN [e EXCEPT !.vehicles["superHeavy"].gridFinsEffectiveness =
                           IF less <= 0 THEN 0 ELSE less,
                       !.vehicles["superHeavy"].gridFinsDeployed = ~(less <= 0)]
        ELSE e

\* updateBoosterLanding(deltaTime)
updateBoosterLanding(e, deltaTime) ==
    stepWithThrottle(
        landingBurn(landingSetpoint(gridFinStep(
                        landingPhaseStep(landingClock(e, Min(deltaTime, 50))), deltaTime)),
                    Min(deltaTime, 50)),
        "superHeavy", deltaTime)

\* booster.position.distanceTo(catchPosition) in dm, catchPosition = (-120, 100, 0)
\* (beyond 4 km of height the horizontal 120 m add less than 2 m: the height
\* difference stands for the distance)
distanceToCatch(v) ==
    IF Abs(v.y \div 100 - 1000) > 40000
    THEN Abs(v.y \div 100 - 1000)
    ELSE Length(<<1200, v.y \div 100 - 1000>>)

\* updateMechazillaCatch(deltaTime)
updateMechazillaCatch(e, deltaTime) ==
    LET v == e.vehicles["superHeavy"]
        throttle == 100 + (200 * Min(1000, (distanceToCatch(v) * 1000) \div 500)) \div 1000
    IN  physicsStep([e EXCEPT !.vehicles["superHeavy"].throttle = throttle],
                    "superHeavy", deltaTime, TRUE)

\* reset(): fuel is not restored
reset(e) ==
    [e EXCEPT !.separationTimer = Null,
              !.separationCompleted = FALSE,
              !.vehicles = [id \in VehicleIds |->
                               [e.vehicles[id] EXCEPT
                                   !.y = IF id = "superHeavy" THEN 100 ELSE 60750,
                                   !.vy = 0, !.ay = 0, !.w = 0, !.throttle = 0,
                                   !.active = TRUE]],
              !.landingPhase = "none",
              !.pid = [e.pid EXCEPT
                          !.verticalVelocity.setpoint = 0,
                          !.verticalVelocity.integral = 0,
                          !.verticalVelocity.previousError = 0,
                          !.verticalVelocity.output = 0,
                          !.horizontalPosition.setpoint = <<0, 0>>,
                          !.horizontalPosition.integral = <<0, 0>>,
                          !.horizontalPosition.previousError = <<0, 0>>,
                          !.horizontalPosition.output = <<0, 0>>],
              !.simulationTime = 0]

(***************************************************************************)
(* AerospacePhysicsEngine.  The engines of a vehicle are commanded         *)
(* together (engineIds = null), so one lit flag, one throttle and the      *)
(* summed mass flow stand for the engine array.  atmosphericConditions     *)
(* keep their constructed sea-level values: pressure ratio 1, density      *)
(* 1.225.                                                                  *)
(***************************************************************************)
aeroDryMass(id) == IF id = "superHeavy" THEN 200000 ELSE 120000

aeroPropellantMass(id) == IF id = "superHeavy" THEN 3400000 ELSE 1200000

\* count * thrust over the engine groups, kN
aeroEngineThrust(id) == IF id = "superHeavy" THEN 20 * 1845 + 13 * 1845 ELSE 3 * 1845 + 3 * 2200

\* sum over the engines of thrust / (isp * EARTH_GRAVITY), kg/s at throttle 1
aeroFullFlow(id) ==
    IF id = "superHeavy"
    THEN (33 * 1845000 * 10) \div (330 * 98)
    ELSE (3 * 1845000 * 10) \div (330 * 98) + (3 * 2200000 * 10) \div (380 * 98)

\* 0.5 * SEA_LEVEL_DENSITY * dragCoefficient * crossSectionalArea, in 1/100
aeroDragFactor(id) == IF id = "superHeavy" THEN 2338 ELSE 3195

aeroThrottleMin == 400

aeroThrottleMax == 1000

\* initializeVehicle(vehicleType)
initializeVehicle(id) ==
    [y |-> IF id = "starship" THEN 94000 ELSE 34500, vy |-> 0, ay |-> 0, w |-> 0,
     propellantMass |-> aeroPropellantMass(id), lit |-> FALSE, throttle |-> 0,
     flow |-> 0, active |-> FALSE, clamped |-> FALSE, dt |-> 0]

\* calculateGravity(altitude): G * EARTH_MASS / (EARTH_RADIUS + altitude)^2, mm/s^2
calculateGravity(y) == Max(0, 9820 - 3 * (y \div 1000000))

\* the magnitude of calculateThrust(vehicle) in kN: lit and throttle > 0 are
\* all that is asked; thrustCoefficient is 1.0 at sea-level pressure
calculateThrust(id, v) ==
    IF v.lit /\ v.throttle > 0 THEN (aeroEngineThrust(id) * v.throttle) \div 1000 ELSE 0

\* updateFuelFlow over the engines, as calculateThrust calls it: the flow is
\* written only for an engine that is lit with throttle > 0
updateFuelFlow(id, v) ==
    IF v.lit /\ v.throttle > 0 THEN (aeroFullFlow(id) * v.throttle) \div 1000 ELSE v.flow

\* updateMass(vehicle, dt): the propellant left
updateMass(v, dt) ==
    LET totalMassFlow == IF v.lit /\ v.throttle > 0 THEN v.flow ELSE 0
    IN  Max(0, v.propellantMass - (totalMassFlow * dt) \div 1000)

\* calculateAerodynamicForces(vehicle), N: none below 1 m/s
calculateAerodynamicForces(id, v) ==
    LET vd == Abs(v.vy) \div 100
    IN  IF Abs(v.vy) < 1000 THEN 0
        ELSE -Sign(v.vy) * ((aeroDragFactor(id) * vd * vd) \div 10000)

\* updateVehiclePhysics(vehicle, dt) of the Aerospace engine
aeroUpdateVehiclePhysics(id, v, dt) ==
    LET prop    == updateMass(v, dt)
        mass100 == (aeroDryMass(id) + prop) \div 100
        a       == -calculateGravity(v.y)
                   + (calculateThrust(id, v) * 10000) \div mass100
                   + (calculateAerodynamicForces(id, v) * 10) \div mass100
        vy1     == v.vy + (a * dt) \div 1000
        y1      == v.y + (vy1 * dt) \div 1000
        v1      == [v EXCEPT !.propellantMass = prop, !.flow = updateFuelFlow(id, v),
                             !.ay = a, !.vy = vy1, !.y = y1, !.clamped = FALSE,
                             !.dt = dt]
    IN  IF y1 < 0
        THEN [v1 EXCEPT !.y = 0, !.vy = 0, !.w = 0, !.clamped = TRUE]
        ELSE v1

aeroMaxStep == 20

\* update(deltaTime), the loop body: a vehicle whose active flag is set
aeroUpdateOne(a, id, dt) ==
    IF a[id].active
    THEN [a EXCEPT ![id] = aeroUpdateVehiclePhysics(id, @, dt)]
    ELSE a

\* an update that hands deltaTime on as it is
aeroUpdateUncapped(a, deltaTime) ==
    aeroUpdateOne(aeroUpdateOne(a, "starship", deltaTime), "superHeavy", deltaTime)

\* update(deltaTime) of the Aerospace engine: the vehicles, in the order of
\* this.vehicles (its missionTime is not part of the model)
aeroUpdate(a, deltaTime) ==
    aeroUpdateOne(aeroUpdateOne(a, "starship", Min(deltaTime, aeroMaxStep)),
                  "superHeavy", Min(deltaTime, aeroMaxStep))

\* altitude above which 'launch' becomes 'ascent', mm
aeroAscentAltitude == 1000000

\* the constructor and reset(): flightPhase 'prelaunch', separationTimer null
aeroMissionConstructed == [flightPhase |-> "prelaunch", separationTimer |-> Null]

\* updateMissionPhase: 'launch' becomes 'ascent' above 1000 m
aeroAscentStep(m, a) ==
    IF m.flightPhase = "launch" /\ a["superHeavy"].y > aeroAscentAltitude
    THEN [m EXCEPT !.flightPhase = "ascent"]
    ELSE m

\* updateMissionPhase: in 'ascent' with a separation timer set the phase
\* becomes 'separation', the timer loses dt and at 0 the phase becomes
\* 'post_separation'
aeroSeparationStep(m, dt) ==
    IF m.flightPhase = "ascent" /\ m.separationTimer # Null
    THEN [m EXCEPT !.flightPhase = IF m.separationTimer[1] - dt <= 0
                                   THEN "post_separation" ELSE "separation",
                   !.separationTimer = <<m.separationTimer[1] - dt>>]
    ELSE m

\* updateMissionPhase(dt), a the vehicles after their update
updateMissionPhase(m, a, dt) == aeroSeparationStep(aeroAscentStep(m, a), dt)

\* startEngines(vehicleId)
aeroStartEngines(v) == [v EXCEPT !.lit = TRUE, !.throttle = aeroThrottleMin]

\* setThrottle(vehicleId, throttle): the lit engines only
aeroSetThrottle(v, throttle) ==
    IF v.lit
    THEN [v EXCEPT !.throttle = Max(0, Min(aeroThrottleMax,
                                  IF throttle > 0 THEN Max(aeroThrottleMin, throttle) ELSE 0))]
    ELSE v

\* shutdownEngines(vehicleId)
aeroShutdownEngines(v) == [v EXCEPT !.lit = FALSE, !.throttle = 0]

InitAero ==
    /\ aero = [id \in VehicleIds |-> initializeVehicle(id)]
    /\ aeroThrust = noThrust
    /\ aeroMission = aeroMissionConstructed

(***************************************************************************)
(* main.js: the mission phase machine                                      *)
(***************************************************************************)
MISSION_PHASES ==
    <<"ready", "launch", "ascent", "stage_separation", "booster_return",
      "starship_ascent", "booster_landing", "mechazilla_catch", "mission_complete">>

\* the offset of the upper stage above the booster in the scene, 71/2 + 50/2 + 0.5 m
starshipOffset == 61000

\* altitude above which Launch becomes Ascent
ascentAltitude == 30000

\* the engine after construction and reset()
constructedVehicles ==
    [id \in VehicleIds |->
        [y |-> IF id = "superHeavy" THEN 100 ELSE 60750, vy |-> 0, ay |-> 0, w |-> 0,
         fuel |-> initialFuel(id), throttle |-> 0, active |-> TRUE, clamped |-> FALSE,
         gridFinsDeployed |-> FALSE, gridFinsEffectiveness |-> 0,
         dt |-> 0, steps |-> 0, impulses |-> 0, controls |-> 0]]

\* MechazillaCatchSimulation after reset() and initialize()
catchInitialized ==
    [armsOpen |-> TRUE, armsVerticalPosition |-> 100000, armsHorizontalPosition |-> 15000,
     catchInProgress |-> FALSE, catchSuccessful |-> FALSE, catchFailed |-> FALSE,
     trackingActive |-> FALSE,
     boosterPosition |-> [h |-> 50000, y |-> 0],
     boosterVelocity |-> [vy |-> 0, vh |-> 0]]

trackingRange == 10000

\* startTracking then prepareForCatch: the tower is at x = -50 m, distances in dm
startTracking(c, v) ==
    IF Length(<<500, v.y \div 100>>) <= trackingRange
    THEN [c EXCEPT !.trackingActive = TRUE, !.catchInProgress = TRUE,
                   !.armsOpen = TRUE, !.armsHorizontalPosition = 15000]
    ELSE c

(***************************************************************************)
(* MechazillaCatchSimulation.  Lengths in mm, speeds in mm/s (the arm      *)
(* speeds in mm per ms), time steps in ms.  A booster position p is        *)
(* [h, y]: its horizontal distance from the tower axis and its height; a   *)
(* booster velocity v is [vy, vh]: its vertical component and the length   *)
(* of its horizontal component.                                            *)
(***************************************************************************)
towerHeight == 146000

armSpeed == 2

armClosingSpeed == 1

\* 71 - catchPointsHeight, catchPointsHeight = 71 * 0.8
catchPointOffset == 14200

\* the ends of the arms' travel on the tower: 10 and towerHeight - 10
armsLowest == 10000

armsHighest == towerHeight - 10000

armsSpread == 15000

armsClosed == 5000

\* the horizontal distance below which the booster is between the arms
catchRadius == 5000

catchHeightTolerance == 2000

positionTolerance == 1000

belowArmsTolerance == 5000

nearGround == 10000

maxCatchVerticalSpeed == 2000

maxCatchHorizontalSpeed == 1000

\* startTracking alone: the distance to the tower base against trackingRange, in dm
trackBooster(c, p) ==
    IF (p.h \div 100) * (p.h \div 100) + (p.y \div 100) * (p.y \div 100)
           <= trackingRange * trackingRange
    THEN [c EXCEPT !.trackingActive = TRUE]
    ELSE c

\* targetHeight - armsVerticalPosition
heightDifference(c, p) == (p.y - catchPointOffset) - c.armsVerticalPosition

updateArmPositionStuck(c, p, deltaTime) == c

\* arms that reach the target height within one call
updateArmPositionAtOnce(c, p, deltaTime) ==
    IF ~c.trackingActive THEN c
    ELSE [c EXCEPT !.armsVerticalPosition =
              Max(armsLowest, Min(@ + heightDifference(c, p), armsHighest))]

updateArmPosition(c, p, deltaTime) ==
    IF ~c.trackingActive THEN c
    ELSE [c EXCEPT !.armsVerticalPosition =
              Max(armsLowest,
                  Min(@ + Min(Abs(heightDifference(c, p)), armSpeed * deltaTime)
                            * Sign(heightDifference(c, p)),
                      armsHighest))]

\* what updateArmPosition returns: the difference is taken before the arms move
armsInPosition(c, p) ==
    c.trackingActive /\ Abs(heightDifference(c, p)) < positionTolerance

prepareForCatch(c) ==
    IF ~c.trackingActive THEN c
    ELSE [c EXCEPT !.armsOpen = TRUE, !.armsHorizontalPosition = armsSpread,
                   !.catchInProgress = TRUE]

catchVelocityOkVerticalOnly(v) == Abs(v.vy) < maxCatchVerticalSpeed

\* the velocity test made when the arms have closed
catchVelocityOk(v) ==
    Abs(v.vy) < maxCatchVerticalSpeed /\ v.vh < maxCatchHorizontalSpeed

\* the arms close by armClosingSpeed * deltaTime; at 5 m the catch is decided
closeArms(c, v, deltaTime) ==
    IF c.armsHorizontalPosition - armClosingSpeed * deltaTime <= armsClosed
    THEN [c EXCEPT !.armsOpen = FALSE, !.armsHorizontalPosition = armsClosed,
                   !.catchSuccessful = IF catchVelocityOk(v) THEN TRUE ELSE @,
                   !.catchFailed = IF catchVelocityOk(v) THEN @ ELSE TRUE]
    ELSE [c EXCEPT !.armsHorizontalPosition = @ - armClosingSpeed * deltaTime]

attemptCatch(c, p, v, deltaTime) ==
    IF ~c.catchInProgress THEN c
    ELSE IF p.h < catchRadius
    THEN IF Abs(heightDifference(c, p)) < catchHeightTolerance
         THEN IF c.armsOpen THEN closeArms(c, v, deltaTime) ELSE c
         ELSE IF p.y < c.armsVerticalPosition - belowArmsTolerance
              THEN [c EXCEPT !.catchFailed = TRUE]
              ELSE c
    ELSE IF p.y < nearGround
         THEN [c EXCEPT !.catchFailed = TRUE]
         ELSE c

catchAttemptAlways(c, p, v, deltaTime) == attemptCatch(c, p, v, deltaTime)

\* the last step of update(): the attempt, while the catch is undecided
catchAttempt(c, p, v, deltaTime) ==
    IF c.catchInProgress /\ ~c.catchSuccessful /\ ~c.catchFailed
    THEN attemptCatch(c, p, v, deltaTime)
    ELSE c

\* update() after the booster state is stored and tracking has been tried:
\* c is the controller before the arms move, moved the one after
catchAfterArms(c, moved, p, v, deltaTime) ==
    catchAttempt(IF armsInPosition(c, p) /\ ~moved.catchInProgress
                 THEN prepareForCatch(moved)
                 ELSE moved,
                 p, v, deltaTime)

catchTracked(c, p, v, deltaTime) ==
    catchAfterArms(c, updateArmPosition(c, p, deltaTime), p, v, deltaTime)

catchUpdate(c, deltaTime, p, v) ==
    catchTracked(IF c.trackingActive
                 THEN [c EXCEPT !.boosterPosition = p, !.boosterVelocity = v]
                 ELSE trackBooster([c EXCEPT !.boosterPosition = p,
                                             !.boosterVelocity = v], p),
                 p, v, deltaTime)

\* reset() and initialize() of the controller: the stored booster state stays
catchReset(c) ==
    [c EXCEPT !.armsOpen = TRUE, !.armsVerticalPosition = 100000,
              !.armsHorizontalPosition = armsSpread, !.catchInProgress = FALSE,
              !.catchSuccessful = FALSE, !.catchFailed = FALSE,
              !.trackingActive = FALSE]

InitMission ==
    /\ cmd = "init"
    /\ ticks = 0
    /\ scenario = [cmd |-> "none", n |-> 0, sum |-> 0, raw |-> 0, unit |-> TRUE]
    /\ currentPhase = "ready"
    /\ isSimulationRunning = FALSE
    /\ missionTime = 0
    /\ simulationSpeed = 10
    /\ starshipAscending = FALSE
    /\ scene = [superHeavy |-> 34500, starship |-> 94000]
    /\ mechazillaCatch = Null

InitEngine ==
    /\ vehicles = constructedVehicles
    /\ thrustApplied = noThrust
    /\ separationTimer = Null
    /\ separationCompleted = FALSE
    /\ landingPhase = "none"
    /\ landingParams = [phaseStartTime |-> 0, currentPhaseTime |-> 0]
    /\ landingStartAltitude = Null
    /\ returnParams = Null
    /\ simulationTime = 0

InitPid ==
    /\ pidControllers = [verticalVelocity |-> verticalVelocityController,
                         horizontalPosition |-> horizontalPositionController]
    /\ returned = [op |-> "none"]
    /\ pidResult = [op |-> "none", nan |-> FALSE, value |-> <<0, 0>>, dt |-> 0,
                    raised |-> FALSE]

\* the engine record written back to the variables
EngineBecomes(e) ==
    /\ vehicles' = e.vehicles
    /\ thrustApplied' = e.thrust
    /\ separationTimer' = e.separationTimer
    /\ separationCompleted' = e.separationCompleted
    /\ landingPhase' = e.landingPhase
    /\ landingParams' = e.landingParams
    /\ landingStartAltitude' = e.landingStartAltitude
    /\ returnParams' = e.returnParams
    /\ simulationTime' = e.simulationTime
    /\ pidControllers' = e.pid

\* a command the phase guard turns away: nothing but the history changes
Rejected(name) ==
    /\ cmd' = name
    /\ thrustApplied' = noThrust
    /\ UNCHANGED <<ticks, scenario, missionVars, vehicles, separationTimer,
                   separationCompleted, landingPhase, landingParams,
                   landingStartAltitude, returnParams, simulationTime, pidVars, aeroVars>>

Accepted(name) ==
    /\ cmd' = name
    /\ scenario' = [cmd |-> name, n |-> 0, sum |-> 0, raw |-> 0, unit |-> TRUE]
    /\ UNCHANGED <<ticks, simulationSpeed, resultVars, aeroVars>>

\* a guard that lets a flown mission be launched again
canStartLaunchAgain == currentPhase \in {"ready", "booster_return"}

\* a guard that accepts the separation command during Launch as well
canTriggerStageSeparationEarly == currentPhase \in {"launch", "ascent"}

canStartLaunch == currentPhase = "ready"

canTriggerStageSeparation == currentPhase = "ascent"

canStartLandingSequence == currentPhase = "booster_return"

canStartMechazillaCatch == currentPhase = "booster_landing"

\* a launch that keeps the positions reset() gave
launchPositionOfReset(id) == IF id = "superHeavy" THEN 100 ELSE 60750

\* the position startLaunch gives a physics vehicle: the scene model's
launchPosition(id) == scene[id]

startLaunch ==
    IF canStartLaunch
    THEN /\ Accepted("startLaunch")
         /\ missionTime' = 0
         /\ starshipAscending' = FALSE
         /\ currentPhase' = "launch"
         /\ isSimulationRunning' = TRUE
         /\ LET e == reset(engineAtCall)
            IN  EngineBecomes([e EXCEPT !.vehicles["superHeavy"].y = launchPosition("superHeavy"),
                                        !.vehicles["starship"].y = launchPosition("starship"),
                                        !.vehicles["superHeavy"].throttle = 1000])
         /\ UNCHANGED <<scene, mechazillaCatch>>
    ELSE Rejected("startLaunch")

triggerStageSeparation ==
    IF canTriggerStageSeparation
    THEN /\ Accepted("triggerStageSeparation")
         /\ scene' = [scene EXCEPT !.starship = scene.superHeavy + starshipOffset]
         /\ currentPhase' = "stage_separation"
         /\ EngineBecomes([engine EXCEPT
                !.thrust = noThrust,
                !.vehicles["superHeavy"].y = scene.superHeavy,
                !.vehicles["starship"].y = scene.superHeavy + starshipOffset,
                !.vehicles["starship"].vy = vehicles["superHeavy"].vy])
         /\ UNCHANGED <<isSimulationRunning, missionTime, starshipAscending, mechazillaCatch>>
    ELSE Rejected("triggerStageSeparation")

startLandingSequence ==
    IF canStartLandingSequence
    THEN /\ Accepted("startLandingSequence")
         /\ currentPhase' = "booster_landing"
         /\ EngineBecomes([engine EXCEPT
                !.thrust = noThrust,
                !.landingStartAltitude = IF @ = Null THEN <<5000000>> ELSE @,
                !.vehicles["superHeavy"].throttle = 300,
                !.landingPhase = "coast",
                !.landingParams = [phaseStartTime |-> missionTime, currentPhaseTime |-> 0]])
         /\ UNCHANGED <<isSimulationRunning, missionTime, starshipAscending, scene,
                        mechazillaCatch>>
    ELSE Rejected("startLandingSequence")

startMechazillaCatch ==
    IF canStartMechazillaCatch
    THEN /\ Accepted("startMechazillaCatch")
         /\ mechazillaCatch' = <<startTracking(catchInitialized, vehicles["superHeavy"])>>
         /\ currentPhase' = "mechazilla_catch"
         /\ EngineBecomes(engineAtCall)
         /\ UNCHANGED <<isSimulationRunning, missionTime, starshipAscending, scene>>
    ELSE Rejected("startMechazillaCatch")

\* the speed slider's input handler
setSimulationSpeed(s) ==
    /\ cmd' = "setSimulationSpeed"
    /\ simulationSpeed' = s
    /\ thrustApplied' = noThrust
    /\ UNCHANGED <<ticks, scenario, currentPhase, isSimulationRunning, missionTime,
                   starshipAscending, scene, mechazillaCatch, vehicles, separationTimer,
                   separationCompleted, landingPhase, landingParams, landingStartAltitude,
                   returnParams, simulationTime, pidVars, aeroVars>>

\* updateSimulation: the engine method of the current phase
phaseUpdate(phase, e, delta) ==
    CASE phase = "launch" -> updateLaunch(e, delta)
      [] phase = "ascent" -> updateAscent(e, delta)
      [] phase = "stage_separation" -> updateStageSeparation(e, delta)
      [] phase = "booster_return" -> updateBoosterReturn(e, delta)
      [] phase = "starship_ascent" -> updateStarshipAscent(e, delta)
      [] phase = "booster_landing" -> updateBoosterLanding(e, delta)
      [] phase = "mechazilla_catch" -> updateMechazillaCatch(e, delta)
      [] OTHER -> e

\* a switch that separates the stages by itself once the ascent is under way
nextPhaseAutomatic(phase, e) ==
    CASE phase = "launch" /\ e.vehicles["superHeavy"].y > ascentAltitude -> "ascent"
      [] phase = "ascent" /\ e.vehicles["superHeavy"].y > ascentAltitude -> "stage_separation"
      [] phase = "stage_separation" /\ e.separationTimer[1] <= 0 -> "booster_return"
      [] OTHER -> phase

\* updateSimulation: the phase after the switch; e is the engine after the
\* phase's method ran
nextPhase(phase, e) ==
    CASE phase = "launch" /\ e.vehicles["superHeavy"].y > ascentAltitude -> "ascent"
      [] phase = "stage_separation" /\ e.separationTimer[1] <= 0 -> "booster_return"
      [] OTHER -> phase

\* updateSimulation: the scene positions copied from the physics state
sceneAfter(phase, e) ==
    LET b == e.vehicles["superHeavy"].y
    IN  CASE phase \in {"launch", "ascent"} ->
                [superHeavy |-> b, starship |-> b + starshipOffset]
          [] phase = "stage_separation" ->
                [superHeavy |-> b, starship |-> e.vehicles["starship"].y]
          [] phase \in {"booster_return", "booster_landing", "mechazilla_catch"} ->
                [scene EXCEPT !.superHeavy = b]
          [] OTHER -> scene

\* delta *= simulationSpeed
effectiveDelta(delta) == (delta * simulationSpeed) \div 10

\* updateSimulation, after the switch: e is the engine after the phase's method
\* and ph the phase; the upper stage flies on its own once separated
starshipFlight(ph, e, d) ==
    IF starshipAscending \/ (currentPhase = "stage_separation" /\ ph # currentPhase)
    THEN updateStarshipAscent(e, d)
    ELSE e

\* updateSimulation, its effects: e1 is the engine after the switch, e2 after the
\* independent update of the upper stage
tickEffects(delta, ph, e1, e2) ==
    LET asc == starshipAscending \/ (currentPhase = "stage_separation" /\ ph # currentPhase)
    IN  /\ cmd' = "updateSimulation"
        /\ ticks' = ticks + 1
        /\ scenario' = [scenario EXCEPT !.n = @ + 1,
                                        !.sum = @ + effectiveDelta(delta),
                                        !.raw = @ + delta,
                                        !.unit = @ /\ delta = 1000 /\ simulationSpeed = 10]
        /\ missionTime' = IF currentPhase # "ready"
                          THEN missionTime + effectiveDelta(delta) ELSE missionTime
        /\ currentPhase' = ph
        /\ EngineBecomes(e2)
        /\ scene' = IF asc
                    THEN [sceneAfter(currentPhase, e1) EXCEPT
                             !.starship = e2.vehicles["starship"].y]
                    ELSE sceneAfter(currentPhase, e1)
        /\ starshipAscending' =
               (asc /\ ~(e2.vehicles["starship"].y > orbitAltitude)
                    /\ ~(e2.vehicles["starship"].fuel <= 0))
        /\ UNCHANGED <<isSimulationRunning, simulationSpeed, mechazillaCatch, resultVars,
                       aeroVars>>

\* updateSimulation from the switch on: e1 is the engine after the phase's method
afterSwitch(delta, e1) ==
    tickEffects(delta, nextPhase(currentPhase, e1), e1,
                starshipFlight(nextPhase(currentPhase, e1), e1, effectiveDelta(delta)))

\* updateSimulation(delta); isSimulationRunning is false only while Ready, so the
\* early return for a paused simulation is never taken
updateSimulation(delta) ==
    /\ isSimulationRunning \/ currentPhase = "ready"
    /\ afterSwitch(delta, phaseUpdate(currentPhase, engineAtCall,
                                      effectiveDelta(delta)))

MaxTicks == 5

HarnessMaxTicks == 25

Deltas == {1000}

Speeds == {5, 10, 20}

Init == InitMission /\ InitEngine /\ InitPid /\ InitAero

Commands ==
    \/ startLaunch
    \/ triggerStageSeparation
    \/ startLandingSequence
    \/ startMechazillaCatch

Tick == \E delta \in Deltas : ticks < MaxTicks /\ updateSimulation(delta)

SetSpeed == \E s \in Speeds : s # simulationSpeed /\ setSimulationSpeed(s)

Next == Commands \/ Tick \/ SetSpeed

Spec == Init /\ [][Next]_vars

\* the test harness: every update is simulator.update(1.0) at multiplier 1
HarnessTick == ticks < HarnessMaxTicks /\ updateSimulation(1000)

\* the harness issues each command in the phase that accepts it
HarnessCommands ==
    \/ canStartLaunch /\ startLaunch
    \/ canTriggerStageSeparation /\ triggerStageSeparation
    \/ canStartLandingSequence /\ startLandingSequence
    \/ canStartMechazillaCatch /\ startMechazillaCatch

HarnessNext == HarnessCommands \/ HarnessTick

SpecHarness == Init /\ [][HarnessNext]_vars

(***************************************************************************)
(* The animation loop: animate() scales the clock delta by the speed       *)
(* multiplier, calls updateSimulation with it while the simulation runs,   *)
(* advances the mission time by it and updates the upper stage once more   *)
(* while it ascends on its own.  In this specification scenario.raw sums   *)
(* the clock deltas and scenario.sum the steps handed to the phase update. *)
(***************************************************************************)
AnimateMaxFrames == 3

AnimateDeltas == {40, 1000}

\* const delta = clock.getDelta() * simulationSpeed
frameDelta(d) == (d * simulationSpeed) \div 10

\* starshipAscending after updateSimulation: e2 is the engine it leaves
ascendingAfterUpdate(ph, e2) ==
    /\ starshipAscending \/ (currentPhase = "stage_separation" /\ ph # currentPhase)
    /\ ~(e2.vehicles["starship"].y > orbitAltitude)
    /\ ~(e2.vehicles["starship"].fuel <= 0)

\* animate, its effects: e1 is the engine after the switch of updateSimulation,
\* e2 after updateSimulation and e3 after the update of the upper stage in animate
animateEffects(d, ph, e1, e2, e3) ==
    /\ cmd' = "animate"
    /\ ticks' = ticks + 1
    /\ scenario' = [scenario EXCEPT !.n = @ + 1,
                                    !.sum = @ + effectiveDelta(frameDelta(d)),
                                    !.raw = @ + d,
                                    !.unit = @ /\ d = 1000 /\ simulationSpeed = 10]
    /\ missionTime' = (IF currentPhase # "ready"
                       THEN missionTime + effectiveDelta(frameDelta(d))
                       ELSE missionTime) + frameDelta(d)
    /\ currentPhase' = ph
    /\ EngineBecomes(e3)
    /\ scene' = IF starshipAscending \/ (currentPhase = "stage_separation" /\ ph # currentPhase)
                THEN [sceneAfter(currentPhase, e1) EXCEPT
                         !.starship = e3.vehicles["starship"].y]
                ELSE sceneAfter(currentPhase, e1)
    /\ starshipAscending' =
           (/\ ascendingAfterUpdate(ph, e2)
            /\ ~(e3.vehicles["starship"].y > orbitAltitude)
            /\ ~(e3.vehicles["starship"].fuel <= 0))
    /\ UNCHANGED <<isSimulationRunning, simulationSpeed, mechazillaCatch, resultVars,
                   aeroVars>>

\* animate after updateSimulation: the upper stage is updated with the frame's
\* delta while starshipAscending
animateFlight(d, ph, e1, e2) ==
    animateEffects(d, ph, e1, e2,
                   IF ascendingAfterUpdate(ph, e2)
                   THEN updateStarshipAscent(e2, frameDelta(d))
                   ELSE e2)

animateSwitch(d, e1) ==
    animateFlight(d, nextPhase(currentPhase, e1), e1,
                  starshipFlight(nextPhase(currentPhase, e1), e1,
                                 effectiveDelta(frameDelta(d))))

\* animate() with clock delta d; isSimulationRunning is false only while Ready,
\* when the frame changes nothing of the simulation
animate(d) ==
    IF isSimulationRunning
    THEN animateSwitch(d, phaseUpdate(currentPhase, engineAtCall,
                                      effectiveDelta(frameDelta(d))))
    ELSE /\ cmd' = "animate"
         /\ ticks' = ticks + 1
         /\ UNCHANGED <<scenario, missionVars, engineVars, pidVars, aeroVars>>

Animate == \E d \in AnimateDeltas : ticks < AnimateMaxFrames /\ animate(d)

AnimateNext == Commands \/ Animate \/ SetSpeed

SpecAnimate == Init /\ [][AnimateNext]_vars

\* physicsEngine.reset() called on the engine as a flight has left it; the
\* mission is not flown on afterwards
EngineReset ==
    /\ cmd # "reset"
    /\ cmd' = "reset"
    /\ EngineBecomes(reset(engineAtCall))
    /\ UNCHANGED <<ticks, scenario, missionVars, resultVars, aeroVars>>

ResetNext == (cmd # "reset" /\ HarnessNext) \/ EngineReset

SpecReset == Init /\ [][ResetNext]_vars

(***************************************************************************)
(* The physics of one vehicle, exercised from drawn vehicle states: the    *)
(* methods of both engines are called directly, as the mission and the     *)
(* tests call them                                                         *)
(***************************************************************************)
PhysMaxSteps == 3

PhysAltitudes == {0, 40, 50000}

PhysVelocities == {-20000, 0, 3000}

PhysFuels == {100, 3000, 1200000}

PhysThrottles == {0, 1000}

PhysSpins == {10}

PhysSteps == {16, 1000}

AeroSteps == {20}

AeroDeltas == {1000}

AeroThrottles == {0, 300}

\* the unchanging rest of the state while single physics methods are called
PhysFrame ==
    UNCHANGED <<scenario, missionVars, separationTimer, separationCompleted, landingPhase,
                landingParams, landingStartAltitude, returnParams, simulationTime, pidVars>>

\* the two engines share no state: a behaviour calls the methods of one of them,
\* the one cmd names at the start
ImprovedCalls == {"ImprovedPhysicsEngine", "update", "updateVehiclePhysics"}

AerospaceCalls ==
    {"AerospacePhysicsEngine", "aeroUpdateVehiclePhysics", "aeroUpdate", "startEngines",
     "setThrottle", "shutdownEngines"}

\* the vehicles of the engine under test in a drawn flight state; the active
\* flag of an Aerospace vehicle, false after construction, is its caller's to set
InitPhys ==
    /\ cmd \in {"ImprovedPhysicsEngine", "AerospacePhysicsEngine"}
    /\ ticks = 0
    /\ scenario = [cmd |-> "none", n |-> 0, sum |-> 0, raw |-> 0, unit |-> TRUE]
    /\ currentPhase = "ready"
    /\ isSimulationRunning = FALSE
    /\ missionTime = 0
    /\ simulationSpeed = 10
    /\ starshipAscending = FALSE
    /\ scene = [superHeavy |-> 34500, starship |-> 94000]
    /\ mechazillaCatch = Null
    /\ InitPid
    /\ thrustApplied = noThrust
    /\ separationTimer = Null
    /\ separationCompleted = FALSE
    /\ landingPhase = "none"
    /\ landingParams = [phaseStartTime |-> 0, currentPhaseTime |-> 0]
    /\ landingStartAltitude = Null
    /\ returnParams = Null
    /\ simulationTime = 0
    /\ aeroThrust = noThrust
    /\ aeroMission = aeroMissionConstructed
    /\ \E y \in PhysAltitudes, vy \in PhysVelocities, fuel \in PhysFuels,
          throttle \in PhysThrottles, w \in PhysSpins, flown \in BOOLEAN :
          IF cmd = "ImprovedPhysicsEngine"
          THEN /\ vehicles = [id \in VehicleIds |->
                                 [y |-> y, vy |-> vy, ay |-> 0, w |-> w, fuel |-> fuel,
                                  throttle |-> throttle, active |-> TRUE,
                                  gridFinsDeployed |-> FALSE, gridFinsEffectiveness |-> 0,
                                  clamped |-> FALSE, dt |-> 0, steps |-> 0,
                                  impulses |-> 0, controls |-> 0]]
               /\ aero = [id \in VehicleIds |-> initializeVehicle(id)]
          ELSE /\ vehicles = constructedVehicles
               /\ aero = [id \in VehicleIds |->
                             [initializeVehicle(id) EXCEPT !.y = y, !.vy = vy, !.w = w,
                                                           !.propellantMass = fuel,
                                                           !.active =
                                                               (id = "superHeavy" \/ flown)]]

\* ImprovedPhysicsEngine.update(deltaTime)
PhysUpdate(deltaTime) ==
    /\ cmd \in ImprovedCalls
    /\ ticks < PhysMaxSteps
    /\ cmd' = "update"
    /\ ticks' = ticks + 1
    /\ vehicles' = update(engineAtCall, deltaTime).vehicles
    /\ thrustApplied' = update(engineAtCall, deltaTime).thrust
    /\ aeroThrust' = noThrust
    /\ UNCHANGED <<aero, aeroMission>>
    /\ PhysFrame

\* ImprovedPhysicsEngine.updateVehiclePhysics(vehicle, deltaTime, enginesOn)
PhysUpdateVehicle(id, deltaTime, enginesOn) ==
    /\ cmd \in ImprovedCalls
    /\ ticks < PhysMaxSteps
    /\ cmd' = "updateVehiclePhysics"
    /\ ticks' = ticks + 1
    /\ vehicles' = [vehicles EXCEPT ![id] = updateVehiclePhysics(id, [@ EXCEPT !.steps = 0],
                                                                 deltaTime, enginesOn)]
    /\ thrustApplied' = [noThrust EXCEPT ![id] = IF mass(id) + vehicles[id].fuel <= 0
                                                 THEN 0 ELSE thrustForce(id, vehicles[id])]
    /\ aeroThrust' = noThrust
    /\ UNCHANGED <<aero, aeroMission>>
    /\ PhysFrame

\* AerospacePhysicsEngine.updateVehiclePhysics(vehicle, dt)
AeroUpdateVehicle(id, dt) ==
    /\ cmd \in AerospaceCalls
    /\ ticks < PhysMaxSteps
    /\ cmd' = "aeroUpdateVehiclePhysics"
    /\ ticks' = ticks + 1
    /\ aero' = [aero EXCEPT ![id] = aeroUpdateVehiclePhysics(id, @, dt)]
    /\ aeroThrust' = [noThrust EXCEPT ![id] = calculateThrust(id, aero[id])]
    /\ thrustApplied' = noThrust
    /\ UNCHANGED aeroMission
    /\ UNCHANGED vehicles
    /\ PhysFrame

\* AerospacePhysicsEngine.update(deltaTime)
AeroUpdate(deltaTime) ==
    /\ cmd \in AerospaceCalls
    /\ ticks < PhysMaxSteps
    /\ cmd' = "aeroUpdate"
    /\ ticks' = ticks + 1
    /\ aero' = aeroUpdate(aero, deltaTime)
    /\ aeroMission' = updateMissionPhase(aeroMission, aeroUpdate(aero, deltaTime),
                                         Min(deltaTime, aeroMaxStep))
    /\ aeroThrust' = [id \in VehicleIds |-> IF aero[id].active
                                             THEN calculateThrust(id, aero[id]) ELSE 0]
    /\ thrustApplied' = noThrust
    /\ UNCHANGED vehicles
    /\ PhysFrame

\* an engine command of the Aerospace engine: v is the vehicle after it
AeroCommand(name, id, v) ==
    /\ cmd \in AerospaceCalls
    /\ cmd' = name
    /\ aero' = [aero EXCEPT ![id] = v]
    /\ aeroThrust' = noThrust
    /\ UNCHANGED aeroMission
    /\ thrustApplied' = noThrust
    /\ UNCHANGED <<ticks, vehicles>>
    /\ PhysFrame

AeroStartEngines(id) == AeroCommand("startEngines", id, aeroStartEngines(aero[id]))

AeroSetThrottle(id, throttle) ==
    AeroCommand("setThrottle", id, aeroSetThrottle(aero[id], throttle))

AeroShutdownEngines(id) == AeroCommand("shutdownEngines", id, aeroShutdownEngines(aero[id]))

PhysNext ==
    \/ \E deltaTime \in PhysSteps : PhysUpdate(deltaTime)
    \/ \E id \in VehicleIds, deltaTime \in PhysSteps, enginesOn \in BOOLEAN :
          PhysUpdateVehicle(id, deltaTime, enginesOn)
    \/ \E id \in VehicleIds, dt \in AeroSteps : AeroUpdateVehicle(id, dt)
    \/ \E deltaTime \in AeroDeltas : AeroUpdate(deltaTime)
    \/ \E id \in VehicleIds : AeroStartEngines(id)
    \/ \E id \in VehicleIds, throttle \in AeroThrottles : AeroSetThrottle(id, throttle)
    \/ \E id \in VehicleIds : AeroShutdownEngines(id)

SpecPhys == InitPhys /\ [][PhysNext]_vars

(***************************************************************************)
(* The flight phase of the Aerospace engine under update(deltaTime).  No   *)
(* method of the engine sets flightPhase to 'launch' or the separation     *)
(* timer: like the active flag they are fields its caller sets, so the     *)
(* start draws them, with the booster on the pad or above 1000 m.          *)
(***************************************************************************)
AeroFlightPhases == {"prelaunch", "launch", "ascent"}

\* no timer, a timer of one capped step (0.02 s) and one of 3 s
AeroSeparationTimers == {Null, <<20>>, <<3000>>}

AeroMissionAltitudes == {34500, 1500000}

AeroMissionDeltas == {16, 1000}

InitAeroMission ==
    /\ cmd = "AerospacePhysicsEngine"
    /\ ticks = 0
    /\ scenario = [cmd |-> "none", n |-> 0, sum |-> 0, raw |-> 0, unit |-> TRUE]
    /\ currentPhase = "ready"
    /\ isSimulationRunning = FALSE
    /\ missionTime = 0
    /\ simulationSpeed = 10
    /\ starshipAscending = FALSE
    /\ scene = [superHeavy |-> 34500, starship |-> 94000]
    /\ mechazillaCatch = Null
    /\ InitEngine
    /\ InitPid
    /\ aeroThrust = noThrust
    /\ \E y \in AeroMissionAltitudes, flown \in BOOLEAN :
          aero = [id \in VehicleIds |->
                     [initializeVehicle(id) EXCEPT
                         !.y = IF id = "superHeavy" THEN y ELSE y + 59500,
                         !.active = flown]]
    /\ \E phase \in AeroFlightPhases, timer \in AeroSeparationTimers :
          aeroMission = [flightPhase |-> phase, separationTimer |-> timer]

AeroMissionNext == \E deltaTime \in AeroMissionDeltas : AeroUpdate(deltaTime)

SpecAeroMission == InitAeroMission /\ [][AeroMissionNext]_vars

(***************************************************************************)
(* The guidance of the booster (return, landing, catch), exercised from    *)
(* drawn flight states: altitude, vertical speed, the guidance phase and   *)
(* the time already spent in it                                            *)
(***************************************************************************)
GuideMaxTicks == 4

GuideAltitudes == {20000, 1002000, 2999000, 20000000, 39999000, 64000000, 70000000}

\* the grid fins at the start: stowed, partly stowed again, deployed
GuideGridFins == {[deployed |-> FALSE, effectiveness |-> 0],
                  [deployed |-> TRUE, effectiveness |-> 400],
                  [deployed |-> TRUE, effectiveness |-> 1000]}

GuideVelocities == {-150000, -1000, 0}

GuideDeltas == {40, 1000}

\* simulationTime at the start, with landingParams.phaseStartTime = 0 and
\* returnParams.startTime = 0: a duration (5 s, 10 s, 15 s, 20 s) is about to
\* elapse or is not
GuideTimes == {0, 4960, 9960, 14960, 19960}

\* the mission phase with the guidance state an earlier phase leaves behind:
\* BoosterReturn in each phase of its return (landingPhase 'return' until the
\* approach, 'approach' then), BoosterLanding as startLandingSequence sets it up
\* (landingPhase 'coast'), in its boostback and entry burns and in its landing
\* burn (landingPhase 'landing'), MechazillaCatch
GuideStarts ==
    {[phase |-> "booster_return", returnPhase |-> "coast", landingPhase |-> "return",
      landingStart |-> Null],
     [phase |-> "booster_return", returnPhase |-> "flip", landingPhase |-> "return",
      landingStart |-> Null],
     [phase |-> "booster_return", returnPhase |-> "burn", landingPhase |-> "return",
      landingStart |-> Null],
     [phase |-> "booster_return", returnPhase |-> "approach", landingPhase |-> "approach",
      landingStart |-> Null],
     [phase |-> "booster_landing", returnPhase |-> "approach", landingPhase |-> "coast",
      landingStart |-> <<5000000>>],
     [phase |-> "booster_landing", returnPhase |-> "approach", landingPhase |-> "boostback",
      landingStart |-> <<5000000>>],
     [phase |-> "booster_landing", returnPhase |-> "approach", landingPhase |-> "entry",
      landingStart |-> <<5000000>>],
     [phase |-> "booster_landing", returnPhase |-> "approach", landingPhase |-> "landing",
      landingStart |-> <<5000000>>],
     [phase |-> "mechazilla_catch", returnPhase |-> "approach", landingPhase |-> "landing",
      landingStart |-> <<5000000>>]}

InitGuide ==
    /\ cmd = "guidance"
    /\ ticks = 0
    /\ scenario = [cmd |-> "none", n |-> 0, sum |-> 0, raw |-> 0, unit |-> TRUE]
    /\ isSimulationRunning = TRUE
    /\ missionTime = 0
    /\ simulationSpeed = 10
    /\ starshipAscending = FALSE
    /\ scene = [superHeavy |-> 34500, starship |-> 94000]
    /\ mechazillaCatch = Null
    /\ InitPid
    /\ InitAero
    /\ thrustApplied = noThrust
    /\ separationTimer = <<0>>
    /\ separationCompleted = TRUE
    /\ landingParams = [phaseStartTime |-> 0, currentPhaseTime |-> 0]
    /\ simulationTime \in GuideTimes
    /\ \E g \in GuideStarts, y \in GuideAltitudes, vy \in GuideVelocities,
          fins \in GuideGridFins :
          /\ g.landingPhase = "landing" => y <= landingAltitude
          /\ g.phase = "booster_return" => ~fins.deployed
          /\ currentPhase = g.phase
          /\ landingPhase = g.landingPhase
          /\ landingStartAltitude = g.landingStart
          /\ returnParams = <<[startTime |-> 0, phase |-> g.returnPhase]>>
          /\ vehicles = [constructedVehicles EXCEPT
                             !["superHeavy"].y = y, !["superHeavy"].vy = vy,
                             !["superHeavy"].gridFinsDeployed = fins.deployed,
                             !["superHeavy"].gridFinsEffectiveness = fins.effectiveness,
                             !["superHeavy"].throttle = IF g.phase = "booster_landing"
                                                        THEN 300 ELSE 0]

\* one call of the guidance routine of the phase, as updateSimulation makes it
GuideTick(delta) ==
    /\ ticks < GuideMaxTicks
    /\ cmd' = "updateSimulation"
    /\ ticks' = ticks + 1
    /\ EngineBecomes(phaseUpdate(currentPhase, engineAtCall,
                                 effectiveDelta(delta)))
    /\ UNCHANGED <<scenario, missionVars, resultVars, aeroVars>>

\* the landing command, issued during BoosterReturn
GuideLanding == canStartLandingSequence /\ startLandingSequence

GuideNext == (\E delta \in GuideDeltas : GuideTick(delta)) \/ GuideLanding

SpecGuide == InitGuide /\ [][GuideNext]_vars

(***************************************************************************)
(* The catch controller, driven by update calls with drawn booster states  *)
(* and steps, from its state after construction                            *)
(***************************************************************************)
CatchMaxUpdates == 4

\* between the arms and away from the tower axis
CatchDistances == {4000, 50000}

\* on the ground, below the arms, at the arms' starting height and out of range
CatchHeights == {5000, 90000, 114200, 2000000}

CatchVerticalSpeeds == {-3000, -1000}

CatchHorizontalSpeeds == {0, 1500}

CatchSteps == {1000, 5000}

CatchFrame ==
    UNCHANGED <<scenario, currentPhase, isSimulationRunning, missionTime, simulationSpeed,
                starshipAscending, scene, engineVars, pidVars, aeroVars>>

InitCatch ==
    /\ cmd = "catch"
    /\ ticks = 0
    /\ scenario = [cmd |-> "none", n |-> 0, sum |-> 0, raw |-> 0, unit |-> TRUE]
    /\ currentPhase = "mechazilla_catch"
    /\ isSimulationRunning = TRUE
    /\ missionTime = 0
    /\ simulationSpeed = 10
    /\ starshipAscending = FALSE
    /\ scene = [superHeavy |-> 34500, starship |-> 94000]
    /\ mechazillaCatch = <<catchInitialized>>
    /\ InitEngine
    /\ InitPid
    /\ InitAero

\* update(deltaTime, boosterPosition, boosterVelocity); scenario.sum sums the steps
CatchUpdate(deltaTime, p, v) ==
    /\ ticks < CatchMaxUpdates
    /\ cmd' = "update"
    /\ ticks' = ticks + 1
    /\ scenario' = [scenario EXCEPT !.n = @ + 1, !.sum = @ + deltaTime]
    /\ mechazillaCatch' = <<catchUpdate(mechazillaCatch[1], deltaTime, p, v)>>
    /\ UNCHANGED <<currentPhase, isSimulationRunning, missionTime, simulationSpeed,
                   starshipAscending, scene, engineVars, pidVars, aeroVars>>

CatchReset ==
    /\ cmd = "update"
    /\ cmd' = "reset"
    /\ mechazillaCatch' = <<catchReset(mechazillaCatch[1])>>
    /\ UNCHANGED ticks
    /\ CatchFrame

CatchNext ==
    \/ \E deltaTime \in CatchSteps, h \in CatchDistances, y \in CatchHeights,
          vy \in CatchVerticalSpeeds, vh \in CatchHorizontalSpeeds :
          CatchUpdate(deltaTime, [h |-> h, y |-> y], [vy |-> vy, vh |-> vh])
    \/ CatchReset

SpecCatch == InitCatch /\ [][CatchNext]_vars

(***************************************************************************)
(* The catch controller in its update loop with the booster held: every    *)
(* call is given the booster state the first call was given.  The loop     *)
(* calls update in every frame, hence the weak fairness of the call.       *)
(***************************************************************************)
\* between the arms
HeldDistances == {0, 4000}

\* the catch point, 14.2 m below, at the ends of the arms' travel, at the arms'
\* starting height and in between
HeldHeights == {24200, 60000, 114200, 150200}

HeldVerticalSpeeds == {-100, 0, 100}

HeldHorizontalSpeeds == {0, 100}

\* the controller after the first update call of the loop
InitCatchHeld ==
    /\ cmd = "update"
    /\ ticks = 0
    /\ scenario = [cmd |-> "none", n |-> 0, sum |-> 0, raw |-> 0, unit |-> TRUE]
    /\ currentPhase = "mechazilla_catch"
    /\ isSimulationRunning = TRUE
    /\ missionTime = 0
    /\ simulationSpeed = 10
    /\ starshipAscending = FALSE
    /\ scene = [superHeavy |-> 34500, starship |-> 94000]
    /\ \E deltaTime \in CatchSteps, h \in HeldDistances, y \in HeldHeights,
          vy \in HeldVerticalSpeeds, vh \in HeldHorizontalSpeeds :
          mechazillaCatch = <<catchUpdate(catchInitialized, deltaTime,
                                          [h |-> h, y |-> y], [vy |-> vy, vh |-> vh])>>
    /\ InitEngine
    /\ InitPid
    /\ InitAero

CatchHeldUpdate(deltaTime) ==
    /\ cmd' = "update"
    /\ mechazillaCatch' = <<catchUpdate(mechazillaCatch[1], deltaTime,
                                        mechazillaCatch[1].boosterPosition,
                                        mechazillaCatch[1].boosterVelocity)>>
    /\ UNCHANGED ticks
    /\ CatchFrame

CatchHeldNext == \E deltaTime \in CatchSteps : CatchHeldUpdate(deltaTime)

SpecCatchHeld == InitCatchHeld /\ [][CatchHeldNext]_vars /\ WF_vars(CatchHeldNext)

(***************************************************************************)
(* ReentrySimulation.calculateLandingBurnThrottle, a method without state, *)
(* called with drawn altitudes (m) and vertical velocities (m/s).  Its     *)
(* result is [nan, value]: value is the throttle in 1/1000 when the        *)
(* double the code returns is a number.                                    *)
(***************************************************************************)
reentryMass == 120000

\* maxThrust = 1200000 * 9.81 N, in kN
reentryMaxThrust == 11772

\* calculateGravity(altitude) of ReentrySimulation, mm/s^2:
\* EARTH_MU / (EARTH_RADIUS + altitude)^2
reentryGravity(altitude) == Max(0, 9820 - 3 * (altitude \div 1000))

\* velocity.y / timeToImpact + gravity in mm/s^2, timeToImpact = altitude / -vy:
\* at altitude 0 the quotient is -Infinity for every vy but 0 (held at the
\* floor below, which the clamp of the throttle cannot tell from it)
requiredDeceleration(altitude, vy) ==
    IF altitude = 0 THEN -1000000
    ELSE IF vy = 0 THEN reentryGravity(altitude)
    ELSE Max(-1000000, reentryGravity(altitude) - (vy * vy * 1000) \div altitude)

\* calculateLandingBurnThrottle(altitude, velocity): 0 / -0 is NaN, and
\* Math.max(0, Math.min(1, NaN)) is NaN
calculateLandingBurnThrottle(altitude, vy) ==
    IF altitude = 0 /\ vy = 0
    THEN [nan |-> TRUE, value |-> 0]
    ELSE [nan |-> FALSE,
          value |-> Max(0, Min(1000, ((reentryMass \div 1000)
                                         * requiredDeceleration(altitude, vy))
                                        \div reentryMaxThrust))]

ReentryAltitudes == {0, 1, 10, 100, 500, 1000, 2000, 5000, 20000, 100000}

ReentryVelocities == {-300, -100, -50, -10, -1, 0, 1, 10, 50, 100, 300}

\* what a call of a method without state leaves alone
PureFrame ==
    UNCHANGED <<ticks, scenario, missionVars, engineVars, pidControllers, pidResult, aeroVars>>

LandingBurnThrottle(altitude, vy) ==
    /\ cmd' = "calculateLandingBurnThrottle"
    /\ returned' = [op |-> "calculateLandingBurnThrottle", altitude |-> altitude, vy |-> vy,
                    result |-> calculateLandingBurnThrottle(altitude, vy)]
    /\ PureFrame

ReentryNext ==
    \E altitude \in ReentryAltitudes, vy \in ReentryVelocities :
        LandingBurnThrottle(altitude, vy)

SpecReentry == Init /\ [][ReentryNext]_vars

(***************************************************************************)
(* MarsISRUSystem.transferMethane / transferOxygen and                     *)
(* ISRUSystem.transferMethane: the propellant store and the vehicle tank   *)
(* in kg.  The store holds what production left in it (at most its         *)
(* capacity), the vehicle is any object with the tank field, with or       *)
(* without a maximum of its own.                                           *)
(***************************************************************************)
\* vehicle.maxFuel || 1200000
defaultFuelCapacity == 1200000

\* vehicle.maxOxidizer || 4800000
defaultOxidizerCapacity == 4800000

\* the capacity of the tank: the vehicle's own maximum unless it is missing or 0
tankCapacity(propellant, maxTank) ==
    IF maxTank # Null /\ maxTank[1] # 0 THEN maxTank[1]
    ELSE IF propellant = "methane" THEN defaultFuelCapacity ELSE defaultOxidizerCapacity

\* transferMethane(vehicle, amount) and transferOxygen(vehicle, amount): the
\* store and the tank after the call, and what the call returns
transferPropellant(t, amount) ==
    LET availableTransfer == Min(amount, t.storage)
        actualTransfer    == Min(availableTransfer,
                                 tankCapacity(t.propellant, t.maxTank) - t.tank)
    IN  IF availableTransfer > 0
        THEN [t EXCEPT !.storage = @ - actualTransfer,
                       !.tank = @ + actualTransfer,
                       !.result = actualTransfer]
        ELSE [t EXCEPT !.result = 0]

TransferStorages == {0, 500, 2000}

\* an empty tank, a tank just below and at the default capacity, and the
\* booster's 3400 t of propellant
TransferTanks == {0, 1199900, 1200000, 3400000}

TransferMaxima == {Null, <<3400000>>}

TransferAmounts == {-100, 0, 300, 5000}

InitTransfer ==
    /\ cmd = "init"
    /\ ticks = 0
    /\ scenario = [cmd |-> "none", n |-> 0, sum |-> 0, raw |-> 0, unit |-> TRUE]
    /\ isSimulationRunning = FALSE
    /\ currentPhase = "ready"
    /\ missionTime = 0
    /\ simulationSpeed = 10
    /\ starshipAscending = FALSE
    /\ scene = [superHeavy |-> 34500, starship |-> 94000]
    /\ mechazillaCatch = Null
    /\ InitEngine
    /\ InitAero
    /\ pidControllers = [verticalVelocity |-> verticalVelocityController,
                         horizontalPosition |-> horizontalPositionController]
    /\ pidResult = [op |-> "none", nan |-> FALSE, value |-> <<0, 0>>, dt |-> 0,
                    raised |-> FALSE]
    /\ \E propellant \in {"methane", "oxygen"}, storage \in TransferStorages,
          tank \in TransferTanks, maxTank \in TransferMaxima :
          returned = [op |-> "ISRUSystem", propellant |-> propellant, storage |-> storage,
                      tank |-> tank, maxTank |-> maxTank, amount |-> 0, result |-> 0,
                      before |-> [storage |-> storage, tank |-> tank]]

\* one transfer call; returned.before keeps the store and the tank the call found
Transfer(amount) ==
    /\ cmd' = "transfer"
    /\ returned' = [transferPropellant(returned, amount) EXCEPT
                        !.op = "transfer", !.amount = amount,
                        !.before = [storage |-> returned.storage, tank |-> returned.tank]]
    /\ PureFrame

TransferNext == \E amount \in TransferAmounts : Transfer(amount)

SpecTransfer == InitTransfer /\ [][TransferNext]_vars

(***************************************************************************)
(* The PID controllers, driven by drawn measurements, errors and steps     *)
(***************************************************************************)
PidMaxCalls == 3

PidValues == {-10000, 0, 5000}

PidVectors == {<<0, 0>>, <<3000, 4000>>, <<-5000, 0>>}

PidErrors == {-10000, 0, 10000}

PidSteps == {16, 100}

PidNegativeSteps == {-16}

\* the rest of the state while the controllers are called
PidFrame ==
    UNCHANGED <<scenario, missionVars, engineVars, aeroVars>>

\* updatePID(pidControllers.verticalVelocity, currentValue, dt)
PidUpdateScalar(currentValue, dt) ==
    /\ ticks < PidMaxCalls
    /\ cmd' = "updatePID"
    /\ ticks' = ticks + 1
    /\ pidControllers' = [pidControllers EXCEPT
                             !.verticalVelocity = updatePIDScalar(@, currentValue, dt)]
    /\ UNCHANGED returned
    /\ pidResult' = [op |-> "scalar", nan |-> FALSE,
                     value |-> <<pidControllers'.verticalVelocity.output, 0>>,
                     dt |-> dt, raised |-> updatePIDRaises(dt)]
    /\ PidFrame

\* updatePID(pidControllers.horizontalPosition, currentValue, dt), a Vector2
PidUpdateVector(currentValue, dt) ==
    /\ ticks < PidMaxCalls
    /\ cmd' = "updatePID"
    /\ ticks' = ticks + 1
    /\ pidControllers' = [pidControllers EXCEPT
                             !.horizontalPosition = updatePIDVector2(@, currentValue, dt)]
    /\ UNCHANGED returned
    /\ pidResult' = [op |-> "vector", nan |-> FALSE,
                     value |-> pidControllers'.horizontalPosition.output,
                     dt |-> dt, raised |-> updatePIDRaises(dt)]
    /\ PidFrame

\* pidControl(pidControllers.verticalVelocity, error, dt)
PidControl(error, dt) ==
    /\ ticks < PidMaxCalls
    /\ cmd' = "pidControl"
    /\ ticks' = ticks + 1
    /\ pidControllers' = [pidControllers EXCEPT
                             !.verticalVelocity = pidControl(@, error, dt)]
    /\ UNCHANGED returned
    /\ pidResult' = [op |-> "scalar",
                     nan |-> pidControlOutput(pidControllers.verticalVelocity, error, dt).nan,
                     value |-> <<pidControlOutput(pidControllers.verticalVelocity,
                                                  error, dt).value, 0>>,
                     dt |-> dt, raised |-> FALSE]
    /\ PidFrame

\* updatePID(pidControllers.verticalVelocity, currentValue, 0): a frame whose
\* effective delta is 0
PidUpdateZeroStep(currentValue) ==
    /\ ticks < PidMaxCalls
    /\ cmd' = "updatePID"
    /\ ticks' = ticks + 1
    /\ pidControllers' = [pidControllers EXCEPT
                             !.verticalVelocity = updatePIDZeroStep(@, currentValue)]
    /\ UNCHANGED returned
    /\ pidResult' = [op |-> "scalar",
                     nan |-> updatePIDDerivativeIsNaN(pidControllers.verticalVelocity,
                                                      currentValue),
                     value |-> <<pidControllers'.verticalVelocity.output, 0>>,
                     dt |-> 0, raised |-> updatePIDRaises(0)]
    /\ PidFrame

PidNext ==
    \/ \E currentValue \in PidValues, dt \in PidSteps : PidUpdateScalar(currentValue, dt)
    \/ \E currentValue \in PidValues, dt \in PidNegativeSteps :
          PidUpdateScalar(currentValue, dt)
    \/ \E currentValue \in PidValues : PidUpdateZeroStep(currentValue)
    \/ \E currentValue \in PidVectors, dt \in PidSteps : PidUpdateVector(currentValue, dt)
    \/ \E error \in PidErrors, dt \in PidSteps : PidControl(error, dt)

SpecPID == Init /\ [][PidNext]_vars

(***************************************************************************)
(* Claims about the mission phase machine                                  *)
(***************************************************************************)
\* the simulation state: every variable but the histories cmd, ticks, scenario,
\* thrustApplied and pidResult
simState ==
    <<currentPhase, isSimulationRunning, missionTime, simulationSpeed, starshipAscending,
      scene, mechazillaCatch, vehicles, separationTimer, separationCompleted, landingPhase,
      landingParams, landingStartAltitude, returnParams, simulationTime, pidControllers,
      aero, aeroMission>>

\* the phase a command is accepted in
Predecessor(name) ==
    CASE name = "startLaunch" -> "ready"
      [] name = "triggerStageSeparation" -> "ascent"
      [] name = "startLandingSequence" -> "booster_return"
      [] name = "startMechazillaCatch" -> "booster_landing"

CommandNames ==
    {"startLaunch", "triggerStageSeparation", "startLandingSequence", "startMechazillaCatch"}

\* C1: a command issued in any phase other than its predecessor phase (Ready, Ascent,
\* BoosterReturn, BoosterLanding) is a no-op: the phase and all simulation state
\* (vehicle records, timers, controller state) are unchanged.  The handlers return
\* (startLandingSequence after a console warning); none throws.
C1_RejectedCommandIsNoOp ==
    [][\A name \in CommandNames :
          (cmd' = name /\ currentPhase # Predecessor(name)) => UNCHANGED simState]_vars

\* a separation command turned away in Launch, after the launch has begun
C1_Witness ==
    /\ cmd = "triggerStageSeparation"
    /\ currentPhase = "launch"
    /\ scenario.cmd = "startLaunch"

\* the order of the phases the mission runs through
PhaseOrder ==
    <<"ready", "launch", "ascent", "stage_separation", "booster_return",
      "booster_landing", "mechazilla_catch", "mission_complete">>

PhaseRank(phase) == CHOOSE i \in 1..Len(PhaseOrder) : PhaseOrder[i] = phase

\* C2: along any sequence of commands and update ticks the phase only moves forward
\* in the order Ready, Launch, Ascent, StageSeparation, BoosterReturn,
\* BoosterLanding, MechazillaCatch, MissionComplete; it never returns to a phase
\* it has left.
C2_PhaseOnlyMovesForward ==
    [][/\ currentPhase' \in {PhaseOrder[i] : i \in 1..Len(PhaseOrder)}
       /\ PhaseRank(currentPhase') >= PhaseRank(currentPhase)]_vars

\* the mission has moved through every phase up to MechazillaCatch and ticked there
C2_Witness ==
    /\ currentPhase = "mechazilla_catch"
    /\ cmd = "updateSimulation"

\* C3: update ticks alone never move the phase out of Ascent, BoosterReturn or
\* BoosterLanding; the phase leaves each of them only by its explicit command, and
\* then to StageSeparation, BoosterLanding and MechazillaCatch respectively.
C3_OnlyCommandsLeaveManualPhases ==
    [][/\ (currentPhase = "ascent" /\ currentPhase' # "ascent")
             => (cmd' = "triggerStageSeparation" /\ currentPhase' = "stage_separation")
       /\ (currentPhase = "booster_return" /\ currentPhase' # "booster_return")
             => (cmd' = "startLandingSequence" /\ currentPhase' = "booster_landing")
       /\ (currentPhase = "booster_landing" /\ currentPhase' # "booster_landing")
             => (cmd' = "startMechazillaCatch" /\ currentPhase' = "mechazilla_catch")]_vars

\* three update ticks have run in Ascent and the phase is still Ascent
C3_Witness ==
    /\ currentPhase = "ascent"
    /\ cmd = "updateSimulation"
    /\ scenario.cmd = "startLaunch"
    /\ scenario.n >= 4

\* C4: from Ready, after startLaunch() and ten update(1.0) calls at speed multiplier
\* 1, the phase is Ascent and the booster altitude is above 0.
C4_LaunchReachesAscent ==
    (scenario.cmd = "startLaunch" /\ scenario.n = 10 /\ scenario.unit)
        => (currentPhase = "ascent" /\ vehicles["superHeavy"].y > 0)

\* the state after startLaunch() and ten update(1.0) calls
C4_Witness ==
    /\ scenario.cmd = "startLaunch"
    /\ scenario.n = 10
    /\ scenario.unit
    /\ cmd = "updateSimulation"
    /\ currentPhase = "ascent"

C6_CatchReachesMissionComplete ==
    (scenario.cmd = "startMechazillaCatch" /\ scenario.n >= 20 /\ scenario.unit)
        => currentPhase = "mission_complete"

(***************************************************************************)
(* Claims about vehicle physics and the controllers                        *)
(***************************************************************************)
\* C7: once a vehicle's propellant is 0, the thrust force applied to it by every
\* later physics step is 0, even if its throttle is above 0.
C7_NoThrustWithoutPropellant ==
    [][\A id \in VehicleIds :
          /\ vehicles[id].fuel = 0 => thrustApplied'[id] = 0
          /\ aero[id].propellantMass = 0 => aeroThrust'[id] = 0]_vars

\* C8: in every physics step of either engine the propellant mass does not
\* increase and stays at or above 0, and dry mass + propellant mass, the mass the
\* forces are divided by, is above 0.
C8_PropellantAndMass ==
    [][\A id \in VehicleIds :
          /\ vehicles'[id].fuel <= vehicles[id].fuel
          /\ vehicles'[id].fuel >= 0
          /\ mass(id) + vehicles[id].fuel > 0
          /\ mass(id) + vehicles'[id].fuel > 0
          /\ aero'[id].propellantMass <= aero[id].propellantMass
          /\ aero'[id].propellantMass >= 0
          /\ aeroDryMass(id) + aero'[id].propellantMass > 0]_vars

\* a burn has emptied the booster's tank: the step burnt more than was left
C8_Witness ==
    /\ cmd \in {"update", "updateVehiclePhysics"}
    /\ vehicles["superHeavy"].fuel = 0
    /\ thrustApplied["superHeavy"] > 0

\* a vehicle record on the ground after the ground-contact branch ran
Grounded(v) == v.clamped => (v.y = 0 /\ v.vy = 0 /\ v.ay = 0 /\ v.w = 0)

\* a vehicle at altitude 0 with zero velocity and throttle 0
AtRest(v) == v.y = 0 /\ v.vy = 0 /\ v.throttle = 0

\* C9: after every physics update every vehicle's altitude is >= 0; a step that
\* would take it below 0 sets the altitude to 0 and zeroes velocity, acceleration
\* and angular velocity; and a vehicle at altitude 0 with zero velocity and
\* throttle 0 is left at altitude 0 with zero velocity.
C9_GroundContact ==
    [][\A id \in VehicleIds :
          /\ vehicles'[id].y >= 0
          /\ aero'[id].y >= 0
          /\ Grounded(vehicles'[id])
          /\ Grounded(aero'[id])
          /\ AtRest(vehicles[id]) => (vehicles'[id].y = 0 /\ vehicles'[id].vy = 0)
          /\ AtRest(aero[id]) => (aero'[id].y = 0 /\ aero'[id].vy = 0)]_vars

\* C10: the output of a PID controller stays within [minOutput, maxOutput] (for
\* a vector, its magnitude within maxOutput), and so does the accumulated
\* integral, for any sequence of errors and positive time steps.
C10_PidBounded ==
    LET s == pidControllers.verticalVelocity
        h == pidControllers.horizontalPosition
    IN  /\ ~pidResult.nan
        /\ pidResult.op = "scalar"
              => (s.minOutput <= pidResult.value[1] /\ pidResult.value[1] <= s.maxOutput)
        /\ pidResult.op = "vector"
              => pidResult.value[1] * pidResult.value[1]
                 + pidResult.value[2] * pidResult.value[2] <= h.maxOutput * h.maxOutput
        /\ s.minOutput <= s.integral /\ s.integral <= s.maxOutput
        /\ h.integral[1] * h.integral[1] + h.integral[2] * h.integral[2]
              <= h.maxOutput * h.maxOutput

\* C11: a PID update called with a time step <= 0 raises an error instead of
\* computing and returning an output, and no such update returns a non-finite
\* value (which would be fed into throttle or attitude).
C11_NonPositiveStepFailsFast ==
    (pidResult.op # "none" /\ pidResult.dt <= 0)
        => (pidResult.raised /\ ~pidResult.nan)

resetFields(v) == <<v.y, v.vy, v.throttle, v.fuel>>

\* C13: after reset() called in any reachable state, every vehicle field, every
\* PID controller field and every phase timer (separation timer and completion
\* flag, booster-return sub-phase and start time, landing phase and its timers)
\* equals its value in a freshly initialised simulation.
C13_ResetRestoresFreshState ==
    cmd = "reset"
        => /\ \A id \in VehicleIds :
                  resetFields(vehicles[id]) = resetFields(constructedVehicles[id])
           /\ pidControllers = [verticalVelocity |-> verticalVelocityController,
                                horizontalPosition |-> horizontalPositionController]
           /\ separationTimer = Null
           /\ separationCompleted = FALSE
           /\ returnParams = Null
           /\ landingPhase = "none"
           /\ landingParams = [phaseStartTime |-> 0, currentPhaseTime |-> 0]

\* C14: in an update call of the catch controller in which the arms fully close
\* (they were open and are closed at 5 m afterwards), catchSuccessful is set
\* exactly when the vertical speed of the booster is under 2 m/s and its
\* horizontal speed under 1 m/s, and otherwise catchFailed is set and
\* catchSuccessful stays false; no other update call sets catchSuccessful.
C14_CatchDecidedAtArmClosure ==
    [][cmd' = "update" =>
          LET c == mechazillaCatch[1]
              d == mechazillaCatch'[1]
              closes == c.armsOpen /\ ~d.armsOpen
              slow == /\ Abs(d.boosterVelocity.vy) < 2000
                      /\ d.boosterVelocity.vh < 1000
          IN  /\ (closes /\ slow) => (d.catchSuccessful /\ d.catchFailed = c.catchFailed)
              /\ (closes /\ ~slow) => (d.catchFailed /\ ~d.catchSuccessful)
              /\ closes => (d.armsHorizontalPosition = 5000)
              /\ (d.catchSuccessful /\ ~c.catchSuccessful) => closes]_vars

C14_Witness ==
    /\ cmd = "update"
    /\ mechazillaCatch[1].catchSuccessful
    /\ ~mechazillaCatch[1].armsOpen
    /\ mechazillaCatch[1].armsHorizontalPosition = 5000
    /\ mechazillaCatch[1].boosterVelocity = [vy |-> -1000, vh |-> 0]

\* C15: with the booster held within tracking range, within 5 m of the tower
\* axis, at near-zero velocity and at a height whose catch point lies within the
\* arms' travel, repeated update calls with positive steps eventually close the
\* arms and set catchSuccessful.
C15_HeldBoosterIsCaught ==
    <>(/\ mechazillaCatch[1].catchSuccessful
       /\ ~mechazillaCatch[1].armsOpen
       /\ ~mechazillaCatch[1].catchFailed)

C15_Witness ==
    /\ mechazillaCatch[1].catchSuccessful
    /\ ~mechazillaCatch[1].armsOpen
    /\ mechazillaCatch[1].boosterPosition.y = 24200
    /\ mechazillaCatch[1].armsVerticalPosition = 10000

\* C16: after an update call of the catch controller, catchFailed is set whenever
\* the booster is below 10 m without having been caught, or more than 5 m below
\* the arms while its catch point is 2 m or more off the arm height, whatever
\* its horizontal distance and whether or not the arms got into position.
C16_LowBoosterFailsTheCatch ==
    cmd = "update" =>
        LET c == mechazillaCatch[1]
            p == c.boosterPosition
        IN  /\ (p.y < 10000 /\ ~c.catchSuccessful) => c.catchFailed
            /\ (/\ p.y < c.armsVerticalPosition - 5000
                /\ Abs(heightDifference(c, p)) >= 2000
                /\ ~c.catchSuccessful) => c.catchFailed

\* C17: once an update call has set catchSuccessful or catchFailed, a later
\* update call changes neither flag (only reset() and initialize() clear them),
\* and the two flags are never both true.
C17_CatchOutcomeIsTerminal ==
    [][cmd' = "update" =>
          LET c == mechazillaCatch[1]
              d == mechazillaCatch'[1]
          IN  /\ (c.catchSuccessful \/ c.catchFailed) =>
                     (/\ d.catchSuccessful = c.catchSuccessful
                      /\ d.catchFailed = c.catchFailed)
              /\ ~(d.catchSuccessful /\ d.catchFailed)]_vars

C17_Witness ==
    /\ cmd = "update"
    /\ mechazillaCatch[1].catchSuccessful
    /\ ~mechazillaCatch[1].catchFailed
    /\ mechazillaCatch[1].boosterPosition = [h |-> 50000, y |-> 5000]

\* the place of a landing sub-phase in the order coast, boostback, entry,
\* descent, landing, touchdown
landingRank(lp) ==
    CASE lp = "coast" -> 1
      [] lp = "boostback" -> 2
      [] lp = "entry" -> 3
      [] lp = "descent" -> 4
      [] lp = "landing" -> 5
      [] lp = "touchdown" -> 6
      [] OTHER -> 0

\* C18: in a tick of BoosterLanding the landing sub-phase stays or advances by
\* one place in the order coast, boostback, entry, descent, landing, touchdown;
\* boostback is left exactly when 20 s have passed in it or the altitude is at
\* most 40 km, entry exactly when 15 s have passed or the altitude is at most
\* 20 km; touchdown is entered only from landing at altitude <= 0 and is never
\* left.
C18_LandingPhasesInOrder ==
    [][(cmd' = "updateSimulation" /\ currentPhase = "booster_landing"
            /\ landingRank(landingPhase) > 0) =>
          LET alt == vehicles["superHeavy"].y
              t == landingParams'.currentPhaseTime
              advanced == landingRank(landingPhase') = landingRank(landingPhase) + 1
          IN  /\ (landingPhase' = landingPhase) \/ advanced
              /\ (landingPhase = "boostback") =>
                     (advanced <=> (t >= 20000 \/ alt <= 40000000))
              /\ (landingPhase = "entry") =>
                     (advanced <=> (t >= 15000 \/ alt <= 20000000))
              /\ (landingPhase = "landing") => (advanced <=> (alt <= 0))
              /\ (landingPhase = "touchdown") => (landingPhase' = "touchdown")]_vars

C18_Witness ==
    /\ cmd = "updateSimulation"
    /\ currentPhase = "booster_landing"
    /\ landingPhase = "entry"
    /\ landingParams.currentPhaseTime >= 20000
    /\ vehicles["superHeavy"].y > 40000000

\* C19: in an animation frame with clock delta d and speed multiplier s, while
\* the mission is under way, the step handed to the phase update routine is d*s
\* and the mission time advances by d*s.
C19_FrameStepScaledOnce ==
    [][(cmd' = "animate" /\ isSimulationRunning /\ currentPhase # "ready") =>
          LET d == scenario'.raw - scenario.raw
          IN  /\ scenario'.sum - scenario.sum = (d * simulationSpeed) \div 10
              /\ missionTime' - missionTime = (d * simulationSpeed) \div 10]_vars

\* C20: whatever delta a frame or a caller hands to an engine's update, a single
\* integration of a vehicle's velocity and position uses a step of 0.1 s at
\* most in ImprovedPhysicsEngine and of 0.02 s at most in
\* AerospacePhysicsEngine.update.
C20_IntegrationStepCapped ==
    \A id \in VehicleIds :
        /\ vehicles[id].dt <= 100
        /\ cmd = "aeroUpdate" => aero[id].dt <= 20

C20_Witness ==
    /\ cmd = "aeroUpdate"
    /\ ticks = 1
    /\ aero["superHeavy"].active
    /\ aero["superHeavy"].dt = 20

\* C21: in an animation frame every vehicle's physics state is integrated at
\* most once, the upper stage on its independent ascent included.
C21_OneIntegrationPerFrame ==
    cmd = "animate" => \A id \in VehicleIds : vehicles[id].steps <= 1

\* C22: calculateLandingBurnThrottle(altitude, velocity) returns a number in
\* [0, 1] for every altitude >= 0 and every velocity, zero vertical velocity
\* and zero altitude included.
C22_LandingBurnThrottleInUnitRange ==
    returned.op = "calculateLandingBurnThrottle" =>
        /\ ~returned.result.nan
        /\ 0 <= returned.result.value
        /\ returned.result.value <= 1000

\* the place of a return phase in the order coast, flip, burn, approach
returnRank(phase) ==
    CASE phase = "coast" -> 1
      [] phase = "flip" -> 2
      [] phase = "burn" -> 3
      [] phase = "approach" -> 4
      [] OTHER -> 0

\* the duration of a return phase, ms
returnDuration(phase) ==
    CASE phase = "coast" -> 10000
      [] phase = "flip" -> 5000
      [] OTHER -> 15000

\* C23: in a tick of BoosterReturn the return phase stays or moves to the next
\* of coast, flip, burn, approach; it moves only when the time spent in the
\* phase has reached the phase's duration (10 s, 5 s, 15 s), and does so in the
\* tick in which it has; approach is never left.
C23_ReturnPhasesInOrder ==
    [][(cmd' = "updateSimulation" /\ currentPhase = "booster_return"
            /\ returnParams # Null) =>
          LET a == returnParams[1].phase
              b == returnParams'[1].phase
              t == simulationTime' - returnParams[1].startTime
          IN  /\ returnParams' # Null
              /\ (b = a) \/ (returnRank(b) = returnRank(a) + 1)
              /\ (a # "approach") => ((b # a) <=> (t >= returnDuration(a)))
              /\ (a = "approach") => (b = "approach")]_vars

C23_Witness ==
    /\ cmd = "updateSimulation"
    /\ currentPhase = "booster_return"
    /\ returnParams # Null
    /\ returnParams[1].phase = "flip"
    /\ returnParams[1].startTime = 10000
    /\ ticks = 1

\* C24: within one stage separation the velocity impulses (booster -2.0 m/s,
\* upper stage +3.0 m/s) are given once, in the first tick of StageSeparation,
\* whatever the number of ticks and their steps, and the set-up of the phases
\* after the separation (separationCompleted, the booster return initialised
\* in coast) runs once, in the tick that leaves StageSeparation.
C24_SeparationImpulseOnce ==
    [][LET tickSep == cmd' = "updateSimulation" /\ currentPhase = "stage_separation"
           first == scenario.cmd = "triggerStageSeparation" /\ scenario.n = 0
       IN  /\ (tickSep /\ first) =>
                  (\A id \in VehicleIds : vehicles'[id].impulses = vehicles[id].impulses + 1)
           /\ (~(tickSep /\ first)) =>
                  (\A id \in VehicleIds : vehicles'[id].impulses = vehicles[id].impulses)
           /\ \A id \in VehicleIds : vehicles'[id].impulses <= 1
           /\ (separationCompleted' # separationCompleted) =>
                  (/\ tickSep
                   /\ separationCompleted'
                   /\ currentPhase' = "booster_return"
                   /\ returnParams' = <<[startTime |-> simulationTime', phase |-> "coast"]>>)
           /\ (tickSep /\ currentPhase' # "stage_separation") =>
                  (~separationCompleted /\ separationCompleted')
           /\ (tickSep /\ currentPhase' = "stage_separation") =>
                  (returnParams' = returnParams /\ ~separationCompleted')]_vars

C24_Witness ==
    /\ currentPhase = "booster_return"
    /\ scenario.cmd = "triggerStageSeparation"
    /\ scenario.n >= 3
    /\ separationCompleted
    /\ \A id \in VehicleIds : vehicles[id].impulses = 1

\* the booster's altitude lies in the grid fins' deployment window
inGridFinWindow(v) == v.y <= gridFinDeployAltitude /\ v.y >= gridFinStowAltitude

\* C25 (range and rise): the grid fins' deployment fraction stays in [0, 1] and
\* rises in a tick only when the booster is inside the deployment window.
C25_GridFinsRiseInsideWindow ==
    [][LET v == vehicles["superHeavy"]
       IN  /\ 0 <= vehicles'["superHeavy"].gridFinsEffectiveness
           /\ vehicles'["superHeavy"].gridFinsEffectiveness <= 1000
           /\ (vehicles'["superHeavy"].gridFinsEffectiveness > v.gridFinsEffectiveness) =>
                  (currentPhase = "booster_landing" /\ inGridFinWindow(v))]_vars

\* C25: a tick of BoosterLanding that finds the booster outside the deployment
\* window with a nonzero deployment fraction lowers the fraction, so that
\* continued ticks bring it back to 0.
C25_GridFinsStowOutsideWindow ==
    [][(cmd' = "updateSimulation" /\ currentPhase = "booster_landing"
            /\ ~inGridFinWindow(vehicles["superHeavy"])
            /\ vehicles["superHeavy"].gridFinsEffectiveness > 0) =>
          (vehicles'["superHeavy"].gridFinsEffectiveness
               < vehicles["superHeavy"].gridFinsEffectiveness)]_vars

\* C26: when the landing sequence starts (startLandingSequence accepted, the
\* phase becomes BoosterLanding) the integral and the previous error of every
\* PID controller are zero.
C26_PidsZeroAtLandingStart ==
    (scenario.cmd = "startLandingSequence" /\ scenario.n = 0
        /\ cmd = "startLandingSequence" /\ currentPhase = "booster_landing") =>
       /\ pidControllers.verticalVelocity.integral = 0
       /\ pidControllers.verticalVelocity.previousError = 0
       /\ pidControllers.horizontalPosition.integral = <<0, 0>>
       /\ pidControllers.horizontalPosition.previousError = <<0, 0>>

\* C27: the arms' vertical position stays in [10 m, towerHeight - 10 m] and
\* their horizontal position in [5 m, 15 m]; one update call with step
\* deltaTime moves the arms vertically by at most armSpeed * deltaTime and
\* horizontally by at most armClosingSpeed * deltaTime.
C27_ArmsBoundedAndRateLimited ==
    [][LET c == mechazillaCatch[1]
           d == mechazillaCatch'[1]
           deltaTime == scenario'.sum - scenario.sum
       IN  /\ armsLowest <= d.armsVerticalPosition
           /\ d.armsVerticalPosition <= towerHeight - armsLowest
           /\ armsClosed <= d.armsHorizontalPosition
           /\ d.armsHorizontalPosition <= armsSpread
           /\ (cmd' = "update") =>
                  (/\ Abs(d.armsVerticalPosition - c.armsVerticalPosition)
                          <= armSpeed * deltaTime
                   /\ Abs(d.armsHorizontalPosition - c.armsHorizontalPosition)
                          <= armClosingSpeed * deltaTime)]_vars

C27_Witness ==
    /\ cmd = "update"
    /\ mechazillaCatch[1].trackingActive
    /\ mechazillaCatch[1].armsVerticalPosition = 90000
    /\ mechazillaCatch[1].armsHorizontalPosition = 10000
    /\ mechazillaCatch[1].boosterPosition.y = 5000

\* C28: in a tick of BoosterReturn the landing control, with the update of the
\* PID controller's integral and previous error, runs at most once, in every
\* return phase.
C28_OneLandingControlPerReturnTick ==
    [][(cmd' = "updateSimulation" /\ currentPhase = "booster_return") =>
          (vehicles'["superHeavy"].controls <= 1)]_vars

\* C29: while the flight phase of the Aerospace engine is 'separation', every
\* update runs the separation timer down or ends the separation in
\* 'post_separation', so that updates totalling the timer's duration end it
\* and the phase does not stay 'separation' forever.
C29_SeparationCountsDown ==
    [][(cmd' = "aeroUpdate" /\ aeroMission.flightPhase = "separation") =>
          \/ aeroMission'.flightPhase = "post_separation"
          \/ aeroMission'.separationTimer[1] < aeroMission.separationTimer[1]]_vars

\* C30: a propellant transfer of a requested amount that is not negative
\* returns t with 0 <= t <= min(requested, stored),
\* takes exactly t from the store and adds exactly t to the vehicle tank; the
\* store never grows, the tank never shrinks, and a tank at or above its
\* capacity receives 0.
C30_TransferWithinBounds ==
    (returned.op = "transfer" /\ returned.amount >= 0) =>
       (/\ 0 <= returned.result
        /\ returned.result <= Min(returned.amount, returned.before.storage)
        /\ returned.storage = returned.before.storage - returned.result
        /\ returned.tank = returned.before.tank + returned.result
        /\ returned.storage <= returned.before.storage
        /\ returned.tank >= returned.before.tank
        /\ (returned.before.tank >= tankCapacity(returned.propellant, returned.maxTank)) =>
               (returned.result = 0))

====
